---- MODULE Spec2Model ----
(***************************************************************************)
(* Model of the transcript parser (extract_claude_logs.py) and of the live *)
(* watch server (watch_server.py): record parsing with the tool-name       *)
(* resolution tables, the checkpointed tail reader, and the subscriber     *)
(* registry with its per-viewer queues.                                    *)
(***************************************************************************)
EXTENDS Integers, Sequences, FiniteSets, TLC

(***************************************************************************)
(* Bounds of the model.                                                    *)
(***************************************************************************)
\* longest file, in lines, of a parse session (SpecParse)
MaxLines == 3
\* longest file, in lines, the writer produces during a watch session
MaxWatchLines == 2
\* number of browser tabs (viewers) that may connect to the watch server
NumViewers == 2

Viewers == 1..NumViewers

(***************************************************************************)
(* JSON values as json.loads returns them, tagged by their Python type.    *)
(***************************************************************************)
Str(s) == [j |-> "str", s |-> s]
Num == [j |-> "num"]
Null == [j |-> "null"]
List(items) == [j |-> "list", items |-> items]
Dict(fields) == [j |-> "dict", f |-> fields]
EmptyDict == [j |-> "dict", f |-> <<>>]
\* a Python str built from several pieces (an f-string, a join)
Text(atoms) == [j |-> "text", atoms |-> atoms]

IsDict(v) == v.j = "dict"
IsList(v) == v.j = "list"
IsStr(v) == v.j = "str"

\* d.get(k, def) and "k in d" on a dict
Get(d, k, def) == IF k \in DOMAIN d.f THEN d.f[k] ELSE def
Has(d, k) == k \in DOMAIN d.f

\* Python truthiness of a value
Truthy(v) ==
  CASE v.j = "str" -> v.s # ""
    [] v.j = "text" -> \E i \in DOMAIN v.atoms : v.atoms[i] # ""
    [] v.j = "num" -> TRUE
    [] v.j = "null" -> FALSE
    [] v.j = "list" -> v.items # <<>>
    [] v.j = "dict" -> DOMAIN v.f # {}

\* only str, numbers and None can be dictionary keys
Hashable(v) == v.j \in {"str", "num", "null", "text"}

\* the atoms of a string that str.strip() removes
WhiteAtoms == {"", " ", "\n"}

\* str(v): the pieces of the printed form
StrAtoms(v) ==
  CASE v.j = "str" -> <<v.s>>
    [] v.j = "text" -> v.atoms
    [] v.j = "num" -> <<"7">>
    [] v.j = "null" -> <<"None">>
    [] v.j = "list" -> <<"[..]">>
    [] v.j = "dict" -> <<"{..}">>

\* tool_use_id[:8] on the ids of the catalogue
Trunc8(s) == IF s = "toolu_0123456789" THEN "toolu_01" ELSE s

\* F applied to the value of e, with e evaluated once
Bind(e, F(_)) == CHOOSE y \in {F(x) : x \in {e}} : TRUE

(***************************************************************************)
(* The resolution tables: Python dicts from tool id to name / subagent     *)
(* type.                                                                   *)
(***************************************************************************)
EmptyTable == [k \in {} |-> Null]
Lookup(table, k) == IF k \in DOMAIN table THEN table[k] ELSE Str("")
\* a table that keeps the first value of a key (not what the code does)
StoreIfAbsent(table, k, v) ==
  [x \in DOMAIN table \cup {k} |-> IF x \in DOMAIN table THEN table[x] ELSE v]
Store(table, k, v) == [x \in DOMAIN table \cup {k} |-> IF x = k THEN v ELSE table[x]]

(***************************************************************************)
(* Content normalizer: _extract_rich_content.  The result is               *)
(* [raised |-> TRUE] when the Python code raises, else the content dict.   *)
(***************************************************************************)
Raised == [raised |-> TRUE]
Content(type, text, parts) ==
  [raised |-> FALSE, type |-> type, text |-> text, parts |-> parts]

\* the image part built at lines 391-407 (source is a dict here)
ImagePart(source) ==
  [type |-> "image",
   source_type |-> Get(source, "type", Str("unknown")),
   has_full_data |-> Has(source, "data"),
   source |-> IF Has(source, "data") THEN source ELSE Null,
   data_url |-> IF Has(source, "dataUrl") THEN source.f["dataUrl"] ELSE Null]

\* wrap each inner part of a tool_result (lines 419-437)
RECURSIVE WrapInner(_, _)
WrapInner(inner, tool_use_id) ==
  IF inner = <<>> THEN <<>>
  ELSE <<[type |-> "tool_result", tool_use_id |-> tool_use_id,
          tool_name |-> Null, content |-> Head(inner)]>>
       \o WrapInner(Tail(inner), tool_use_id)

\* the text pieces of one part of a rich content (lines 455-480);
\* [raised |-> TRUE] when the join or the slice would raise TypeError
PartText(part) ==
  CASE part.type = "text" ->
         IF part.text.j \in {"str", "text"}
         THEN [raised |-> FALSE, atoms |-> StrAtoms(part.text)]
         ELSE Raised
    [] part.type = "thinking" ->
         [raised |-> FALSE, atoms |-> <<"\n", "[Thinking] ">> \o StrAtoms(part.thinking) \o <<"\n">>]
    [] part.type = "tool_use" ->
         [raised |-> FALSE,
          atoms |-> <<"\n", "Using tool: ">> \o StrAtoms(part.name) \o <<"\n", "\n", "Input: ">>
                    \o StrAtoms(part.input) \o <<"\n">>]
    [] part.type = "image" -> [raised |-> FALSE, atoms |-> <<"\n", "[Image]", "\n">>]
    [] part.type = "tool_reference" ->
         [raised |-> FALSE, atoms |-> <<"\n", "[Tool Reference] ">> \o StrAtoms(part.tool_name) \o <<"\n">>]
    [] part.type = "tool_result" ->
         IF ~Truthy(part.tool_name) /\ part.tool_use_id.j \notin {"str", "text", "list"}
         THEN Raised  \* tool_use_id[:8] on a number, None or a dict
         ELSE LET display == IF Truthy(part.tool_name) THEN StrAtoms(part.tool_name)
                             ELSE IF part.tool_use_id.j = "str"
                                  THEN <<Trunc8(part.tool_use_id.s), "...">>
                                  ELSE StrAtoms(part.tool_use_id) \o <<"...">>
                  head == <<"\n", "[Tool Result: ">> \o display \o <<"]", "\n">>
                  c == part.content
              IN  [raised |-> FALSE,
                   atoms |-> CASE c.type = "text" -> head \o StrAtoms(c.text) \o <<"\n">>
                               [] c.type = "image" -> head \o <<"[Image]", "\n">>
                               [] OTHER -> head]

\* "\n".join(text_parts) over the parts, left to right
RECURSIVE JoinParts(_)
JoinParts(parts) ==
  IF parts = <<>> THEN [raised |-> FALSE, atoms |-> <<>>]
  ELSE Bind(PartText(Head(parts)), LAMBDA h :
       Bind(JoinParts(Tail(parts)), LAMBDA t :
         IF h.raised \/ t.raised THEN Raised
         ELSE [raised |-> FALSE,
               atoms |-> IF Tail(parts) = <<>> THEN h.atoms
                         ELSE h.atoms \o <<"\n">> \o t.atoms]))

RECURSIVE ExtractRichContent(_, _)
\* the parts one block of a list content contributes (lines 372-437), or Raised
ExtractItem(item, detailed) ==
  IF ~IsDict(item) THEN [raised |-> FALSE, parts |-> <<>>]
  ELSE Bind(Get(item, "type", Null), LAMBDA type :
    CASE type = Str("text") ->
           [raised |-> FALSE,
            parts |-> <<[type |-> "text", text |-> Get(item, "text", Str(""))]>>]
      [] type = Str("thinking") ->
           [raised |-> FALSE,
            parts |-> <<[type |-> "thinking", thinking |-> Get(item, "thinking", Str(""))]>>]
      [] type = Str("tool_use") ->
           [raised |-> FALSE,
            parts |-> IF detailed
                      THEN <<[type |-> "tool_use",
                              name |-> Get(item, "name", Str("unknown")),
                              input |-> Get(item, "input", EmptyDict)]>>
                      ELSE <<>>]
      [] type = Str("image") ->
           Bind(Get(item, "source", EmptyDict), LAMBDA source :
             IF IsDict(source)
             THEN [raised |-> FALSE, parts |-> <<ImagePart(source)>>]
             ELSE Raised)  \* source.get: AttributeError
      [] type = Str("tool_reference") ->
           [raised |-> FALSE,
            parts |-> <<[type |-> "tool_reference",
                         tool_name |-> Get(item, "tool_name", Str("unknown"))]>>]
      [] type = Str("tool_result") ->
           Bind(ExtractRichContent(Get(item, "content", List(<<>>)), detailed), LAMBDA inner :
             IF inner.raised THEN Raised
             ELSE [raised |-> FALSE,
                   parts |-> WrapInner(inner.parts, Get(item, "tool_use_id", Str("")))])
      [] OTHER -> [raised |-> FALSE, parts |-> <<>>])

\* the loop over the blocks of a list content (line 371): the parts, or Raised
RECURSIVE ExtractItems(_, _)
ExtractItems(items, detailed) ==
  IF items = <<>> THEN [raised |-> FALSE, parts |-> <<>>]
  ELSE Bind(ExtractItem(Head(items), detailed), LAMBDA here :
         IF here.raised THEN Raised
         ELSE Bind(ExtractItems(Tail(items), detailed), LAMBDA rest :
                IF rest.raised THEN Raised
                ELSE [raised |-> FALSE, parts |-> here.parts \o rest.parts]))

\* the collapse rule and the text projection (lines 439-486)
Collapse(got) ==
  IF got.raised THEN Raised
  ELSE IF Len(got.parts) = 1 /\ got.parts[1].type = "text"
  THEN Content("text", got.parts[1].text, got.parts)
  ELSE IF Len(got.parts) = 0
  THEN Content("text", Str(""), <<>>)
  ELSE Bind(JoinParts(got.parts), LAMBDA joined_text :
         IF joined_text.raised THEN Raised
         ELSE Content("rich", Text(joined_text.atoms), got.parts))

ExtractRichContent(content, detailed) ==
  IF IsStr(content)
  THEN Content("text", content, <<[type |-> "text", text |-> content]>>)
  ELSE IF IsList(content)
  THEN Bind(ExtractItems(content.items, detailed), Collapse)
  ELSE Content("text", Text(StrAtoms(content)),
               <<[type |-> "text", text |-> Text(StrAtoms(content))]>>)

(***************************************************************************)
(* _fill_tool_names: set tool_name on the tool_result parts whose id is in *)
(* the table.  The text field is left as the normalizer built it.          *)
(***************************************************************************)
FillPart(part, tool_use_to_name) ==
  IF part.type = "tool_result" /\ Truthy(part.tool_use_id) /\ ~Truthy(part.tool_name)
     /\ Truthy(Lookup(tool_use_to_name, part.tool_use_id))
  THEN [part EXCEPT !.tool_name = Lookup(tool_use_to_name, part.tool_use_id)]
  ELSE part

\* the lookup raises TypeError for an id that is a list or a dict
FillRaises(parts) ==
  \E i \in DOMAIN parts :
    /\ parts[i].type = "tool_result"
    /\ Truthy(parts[i].tool_use_id)
    /\ ~Truthy(parts[i].tool_name)
    /\ ~Hashable(parts[i].tool_use_id)

\* a fill pass that resolves nothing
FillToolNamesSkipped(content, tool_use_to_name) == content

FillToolNames(content, tool_use_to_name) ==
  IF content.raised THEN content
  ELSE IF FillRaises(content.parts) THEN Raised
  ELSE [content EXCEPT !.parts = [i \in DOMAIN content.parts |->
                                    FillPart(content.parts[i], tool_use_to_name)]]

\* a filter that lets every text through
TextFilterOff(text) == "emit"

\* "if text and text.strip()": "emit", "drop", or "raise" (strip on a non-string)
TextFilter(text) ==
  CASE text.j = "str" -> IF text.s \in WhiteAtoms THEN "drop" ELSE "emit"
    [] text.j = "text" -> IF \A i \in DOMAIN text.atoms : text.atoms[i] \in WhiteAtoms
                          THEN "drop" ELSE "emit"
    [] OTHER -> IF Truthy(text) THEN "raise" ELSE "drop"

(***************************************************************************)
(* Registration of the tool_use blocks of a list content, before the       *)
(* content is normalized.  st is [names, subs, raised].                    *)
(***************************************************************************)
\* one block, watcher top-level assistant record (watch_server.py 282-290)
RegisterWatch(st, item) ==
  IF st.raised \/ ~IsDict(item) \/ Get(item, "type", Null) # Str("tool_use") THEN st
  ELSE
    LET tool_id == Get(item, "id", Str(""))
        tool_name == Get(item, "name", Str(""))
        reg == Truthy(tool_id) /\ Truthy(tool_name)
        names1 == IF reg /\ Hashable(tool_id) THEN Store(st.names, tool_id, tool_name)
                  ELSE st.names
        input == Get(item, "input", EmptyDict)
        sub == IF IsDict(input) THEN Get(input, "subagent_type", Str("")) ELSE Null
    IN  IF reg /\ ~Hashable(tool_id) THEN [st EXCEPT !.raised = TRUE]
        ELSE IF tool_name # Str("Task") THEN [st EXCEPT !.names = names1]
        ELSE IF ~IsDict(input) THEN [st EXCEPT !.names = names1, !.raised = TRUE]
        ELSE IF Truthy(sub) /\ Truthy(tool_id)
             THEN [st EXCEPT !.names = names1, !.subs = Store(st.subs, tool_id, sub)]
             ELSE [st EXCEPT !.names = names1]

\* one block, batch top-level assistant record (extract_claude_logs.py 136-147):
\* the subagent type is stored whenever it is non-empty, whatever the id
RegisterBatch(st, item) ==
  IF st.raised \/ ~IsDict(item) \/ Get(item, "type", Null) # Str("tool_use") THEN st
  ELSE
    LET tool_id == Get(item, "id", Str(""))
        tool_name == Get(item, "name", Str(""))
        reg == Truthy(tool_id) /\ Truthy(tool_name)
        names1 == IF reg /\ Hashable(tool_id) THEN Store(st.names, tool_id, tool_name)
                  ELSE st.names
        input == Get(item, "input", EmptyDict)
        sub == IF IsDict(input) THEN Get(input, "subagent_type", Str("")) ELSE Null
    IN  IF reg /\ ~Hashable(tool_id) THEN [st EXCEPT !.raised = TRUE]
        ELSE IF tool_name # Str("Task") THEN [st EXCEPT !.names = names1]
        ELSE IF ~IsDict(input) THEN [st EXCEPT !.names = names1, !.raised = TRUE]
        ELSE IF Truthy(sub)
             THEN IF Hashable(tool_id)
                  THEN [st EXCEPT !.names = names1, !.subs = Store(st.subs, tool_id, sub)]
                  ELSE [st EXCEPT !.names = names1, !.raised = TRUE]
             ELSE [st EXCEPT !.names = names1]

\* one block of a subagent progress record: only the name is registered
\* (watch_server.py 321-325, extract_claude_logs.py 191-195 and 224-228)
RegisterSubagent(st, item) ==
  IF st.raised \/ ~IsDict(item) \/ Get(item, "type", Null) # Str("tool_use") THEN st
  ELSE
    LET tool_id == Get(item, "id", Str(""))
        tool_name == Get(item, "name", Str(""))
    IN  IF ~(Truthy(tool_id) /\ Truthy(tool_name)) THEN st
        ELSE IF ~Hashable(tool_id) THEN [st EXCEPT !.raised = TRUE]
        ELSE [st EXCEPT !.names = Store(st.names, tool_id, tool_name)]

\* the "for item in content" scans; how is "watch", "batch" or "subagent"
RECURSIVE ScanToolUses(_, _, _)
ScanToolUses(st, items, how) ==
  IF items = <<>> THEN st
  ELSE Bind(CASE how = "watch" -> RegisterWatch(st, Head(items))
              [] how = "batch" -> RegisterBatch(st, Head(items))
              [] OTHER -> RegisterSubagent(st, Head(items)),
            LAMBDA st1 : ScanToolUses(st1, Tail(items), how))

(***************************************************************************)
(* One record through the parser.  The result is [names, subs, out]; out   *)
(* is [kind |-> "msg", msg |-> m], [kind |-> "none"] (nothing emitted) or  *)
(* [kind |-> "raise"] (the except clause of the caller skips the line).    *)
(* The tables keep what was registered before a raise.                     *)
(***************************************************************************)
NoMsg == [kind |-> "none"]
RaiseOut == [kind |-> "raise"]
Result(names, subs, out) == [names |-> names, subs |-> subs, out |-> out]

\* normalize, fill, filter and build the message: the tail every branch shares
\* (withMeta: the subagent branches add the metadata dict)
EmitMessage(role, content, names, detailed, timestamp, withMeta, metadata) ==
  Bind(ExtractRichContent(content, detailed), LAMBDA raw :
  Bind(FillToolNames(raw, names), LAMBDA rich :
    IF rich.raised THEN RaiseOut
    ELSE Bind(TextFilter(rich.text), LAMBDA verdict :
           CASE verdict = "raise" -> RaiseOut
             [] verdict = "drop" -> NoMsg
             [] OTHER ->
                  [kind |-> "msg",
                   msg |-> IF withMeta
                           THEN [role |-> role, content |-> rich, timestamp |-> timestamp,
                                 metadata |-> metadata]
                           ELSE [role |-> role, content |-> rich, timestamp |-> timestamp]])))

\* the agent_progress branch of a progress record; it is the same code in the
\* watcher and in the batch parser but for the detailed flag
ProgressEntry(entry, names, subs, detailed) ==
  LET data == Get(entry, "data", EmptyDict)
  IN
  IF ~IsDict(data) THEN Result(names, subs, RaiseOut)
  ELSE IF Get(data, "type", Null) # Str("agent_progress") THEN Result(names, subs, NoMsg)
  ELSE
    LET message_data == Get(data, "message", EmptyDict)
    IN
    IF ~Truthy(message_data) THEN Result(names, subs, NoMsg)
    ELSE IF ~IsDict(message_data) THEN Result(names, subs, RaiseOut)
    ELSE
      LET msg_type == Get(message_data, "type", Null)
          msg == Get(message_data, "message", EmptyDict)
          agent_id == Get(data, "agentId", Str("unknown"))
          parent == Get(entry, "parentToolUseID", Str(""))
      IN
      IF ~Hashable(parent) THEN Result(names, subs, RaiseOut)
      ELSE IF msg_type \notin {Str("user"), Str("assistant")} THEN Result(names, subs, NoMsg)
      ELSE IF ~IsDict(msg) THEN Result(names, subs, RaiseOut)
      ELSE IF Get(msg, "role", Null) # msg_type THEN Result(names, subs, NoMsg)
      ELSE
        LET content == Get(msg, "content", List(<<>>))
        IN  Bind(IF IsList(content)
                 THEN ScanToolUses([names |-> names, subs |-> subs, raised |-> FALSE],
                                   content.items, "subagent")
                 ELSE [names |-> names, subs |-> subs, raised |-> FALSE], LAMBDA st :
              IF st.raised THEN Result(st.names, st.subs, RaiseOut)
              ELSE Result(st.names, st.subs,
                          EmitMessage(IF msg_type = Str("user") THEN "subagent_user"
                                      ELSE "subagent_assistant",
                                      content, st.names, detailed,
                                      Get(message_data, "timestamp",
                                          Get(entry, "timestamp", Str(""))),
                                      TRUE,
                                      [agent_id |-> agent_id, agent_type |-> "subagent",
                                       subagent_type |-> Lookup(subs, parent),
                                       parent_tool_use_id |-> parent])))

\* the user and assistant branches; how is "watch" or "batch" (which registration)
UserEntry(entry, names, subs, detailed) ==
  LET msg == entry.f["message"]
  IN  IF IsDict(msg) /\ Get(msg, "role", Null) = Str("user")
      THEN Result(names, subs,
                  EmitMessage("user", Get(msg, "content", Str("")), names, detailed,
                              Get(entry, "timestamp", Str("")), FALSE, Null))
      ELSE Result(names, subs, NoMsg)

AssistantEntry(entry, names, subs, detailed, how) ==
  LET msg == entry.f["message"]
  IN  IF IsDict(msg) /\ Get(msg, "role", Null) = Str("assistant")
      THEN LET content == Get(msg, "content", List(<<>>))
           IN  Bind(IF IsList(content)
                    THEN ScanToolUses([names |-> names, subs |-> subs, raised |-> FALSE],
                                      content.items, how)
                    ELSE [names |-> names, subs |-> subs, raised |-> FALSE], LAMBDA st :
                 IF st.raised THEN Result(st.names, st.subs, RaiseOut)
                 ELSE Result(st.names, st.subs,
                             EmitMessage("assistant", content, st.names, detailed,
                                         Get(entry, "timestamp", Str("")), FALSE, Null)))
      ELSE Result(names, subs, NoMsg)

\* WatchServer._parse_entry
ParseEntry(entry, names, subs) ==
  IF ~IsDict(entry) THEN Result(names, subs, RaiseOut)
  ELSE LET entry_type == Get(entry, "type", Null)
       IN  IF entry_type = Str("user") /\ Has(entry, "message")
           THEN UserEntry(entry, names, subs, TRUE)
           ELSE IF entry_type = Str("assistant") /\ Has(entry, "message")
           THEN AssistantEntry(entry, names, subs, TRUE, "watch")
           ELSE IF entry_type = Str("progress")
           THEN ProgressEntry(entry, names, subs, TRUE)
           ELSE Result(names, subs, NoMsg)

\* the tool_use / tool_result / system events of detailed mode (lines 253-289);
\* their content is a plain string and no filter applies
DetailedEvent(entry) ==
  LET type == Get(entry, "type", Null)
      ts == Get(entry, "timestamp", Str(""))
  IN  CASE type = Str("tool_use") ->
             LET tool == Get(entry, "tool", EmptyDict)
             IN  IF ~IsDict(tool) THEN RaiseOut
                 ELSE [kind |-> "msg",
                       msg |-> [role |-> "tool_use",
                                content |-> Text(<<"Tool: ">> \o StrAtoms(Get(tool, "name", Str("unknown")))
                                                 \o <<"\n", "Input: ">>
                                                 \o StrAtoms(Get(tool, "input", EmptyDict))),
                                timestamp |-> ts]]
        [] type = Str("tool_result") ->
             LET result == Get(entry, "result", EmptyDict)
             IN  IF ~IsDict(result) THEN RaiseOut
                 ELSE LET output == IF Truthy(Get(result, "output", Str("")))
                                    THEN Get(result, "output", Str(""))
                                    ELSE Get(result, "error", Str(""))
                      IN  [kind |-> "msg",
                           msg |-> [role |-> "tool_result",
                                    content |-> Text(<<"Result:", "\n">> \o StrAtoms(output)),
                                    timestamp |-> ts]]
        [] type = Str("system") /\ Has(entry, "message") ->
             IF Truthy(entry.f["message"])
             THEN [kind |-> "msg",
                   msg |-> [role |-> "system",
                            content |-> Text(<<"System: ">> \o StrAtoms(entry.f["message"])),
                            timestamp |-> ts]]
             ELSE NoMsg
        [] OTHER -> NoMsg

\* one iteration of the loop body of extract_conversation
ExtractEntry(entry, names, subs, detailed) ==
  IF ~IsDict(entry) THEN Result(names, subs, RaiseOut)
  ELSE LET entry_type == Get(entry, "type", Null)
       IN  IF entry_type = Str("user") /\ Has(entry, "message")
           THEN UserEntry(entry, names, subs, detailed)
           ELSE IF entry_type = Str("assistant") /\ Has(entry, "message")
           THEN AssistantEntry(entry, names, subs, detailed, "batch")
           ELSE IF entry_type = Str("progress")
           THEN ProgressEntry(entry, names, subs, detailed)
           ELSE IF detailed
           THEN Result(names, subs, DetailedEvent(entry))
           ELSE Result(names, subs, NoMsg)

(***************************************************************************)
(* The source file: a sequence of bytes.  A record is written as the three *)
(* bytes "{", its body, "}" followed by a newline; the body byte names an  *)
(* entry of the catalogue below.                                           *)
(***************************************************************************)
NL == "\n"
SP == " "
\* a byte that is not valid UTF-8
BadByte == "0xFF"
\* the two bytes of one two-byte UTF-8 character: neither decodes alone
Lead == "0xC3"
Cont == "0xA9"

Block(fields) == Dict(fields)
Message(role, content) == Dict([role |-> Str(role), content |-> content])

\* the JSON object a body byte stands for
EntryOf(body) ==
  CASE body = "u_hello" ->
         Dict([type |-> Str("user"), message |-> Message("user", Str("hello"))])
    [] body = "u_blank" ->
         Dict([type |-> Str("user"), message |-> Message("user", Str(" "))])
    [] body = "a_read" ->
         Dict([type |-> Str("assistant"),
               message |-> Message("assistant",
                 List(<<Block([type |-> Str("tool_use"), id |-> Str("t1"),
                               name |-> Str("Read"), input |-> EmptyDict])>>))])
    [] body = "a_write" ->
         Dict([type |-> Str("assistant"),
               message |-> Message("assistant",
                 List(<<Block([type |-> Str("text"), text |-> Str("hi there")]),
                        Block([type |-> Str("tool_use"), id |-> Str("t1"),
                               name |-> Str("Write"), input |-> EmptyDict])>>))])
    [] body = "u_result" ->
         Dict([type |-> Str("user"),
               message |-> Message("user",
                 List(<<Block([type |-> Str("tool_result"), tool_use_id |-> Str("t1"),
                               content |-> Str("out")])>>))])
    [] body = "a_empty" ->
         Dict([type |-> Str("assistant"), message |-> Message("assistant", List(<<>>))])
    [] body = "p_badshape" ->
         Dict([type |-> Str("progress"), data |-> Str("oops")])
    [] body = "u_badimage" ->
         Dict([type |-> Str("user"),
               message |-> Message("user",
                 List(<<Block([type |-> Str("image"), source |-> Str("abc")])>>))])
    [] body = "a_task" ->
         Dict([type |-> Str("assistant"),
               message |-> Message("assistant",
                 List(<<Block([type |-> Str("tool_use"), id |-> Str("t2"),
                               name |-> Str("Task"),
                               input |-> Dict([subagent_type |-> Str("Explore")])])>>))])
    [] body = "p_user" ->
         Dict([type |-> Str("progress"),
               parentToolUseID |-> Str("t2"),
               data |-> Dict([type |-> Str("agent_progress"),
                              agentId |-> Str("agent-1"),
                              message |-> Dict([type |-> Str("user"),
                                                message |-> Message("user", Str("find it"))])])])
    [] body = "s_note" ->
         Dict([type |-> Str("system"), message |-> Str("note")])
    [] body = "a_think5" ->
         Dict([type |-> Str("assistant"),
               message |-> Message("assistant",
                 List(<<Block([type |-> Str("thinking"), thinking |-> Num])>>))])
    [] body = "u_image" ->
         Dict([type |-> Str("user"),
               message |-> Message("user",
                 List(<<Block([type |-> Str("image"),
                               source |-> Dict([type |-> Str("base64"),
                                                data |-> Str("<")])])>>))])
    [] body = "p_task" ->
         Dict([type |-> Str("progress"),
               parentToolUseID |-> Str("t0"),
               data |-> Dict([type |-> Str("agent_progress"),
                              agentId |-> Str("agent-0"),
                              message |-> Dict([type |-> Str("assistant"),
                                                message |-> Message("assistant",
                 List(<<Block([type |-> Str("tool_use"), id |-> Str("t1"),
                               name |-> Str("Grep"), input |-> EmptyDict]),
                        Block([type |-> Str("tool_use"), id |-> Str("t2"),
                               name |-> Str("Task"),
                               input |-> Dict([subagent_type |-> Str("Explore")])])>>))])])])

Bodies == {"u_hello", "u_blank", "a_read", "a_write", "u_result", "a_empty", "p_badshape",
           "u_badimage", "a_task", "p_user", "s_note", "a_think5", "u_image", "p_task"}

RecordLine(body) == <<"{", body, "}">>

\* the lines a file of a parse session is made of (without their newline):
\* the records, an empty line, a truncated record, a JSON number, a bad byte
ParseLines ==
  {RecordLine(b) : b \in Bodies} \cup {<<>>, <<"{", "u_hello">>, <<"7">>, <<BadByte>>}

\* the records the writer appends during a watch session
WatchLines == {RecordLine(b) : b \in {"u_hello", "a_read", "u_result"}}

\* all sequences over S of length lo..hi
SeqsOf(S, lo, hi) == UNION {[1..n -> S] : n \in lo..hi}

\* the bytes of a file whose lines are ls, each terminated by a newline
RECURSIVE FileOf(_)
FileOf(ls) == IF ls = <<>> THEN <<>> ELSE Head(ls) \o <<NL>> \o FileOf(Tail(ls))

\* the lines of a byte sequence as readline() returns them: each with its
\* newline, the last one without when the bytes do not end in a newline
RECURSIVE SplitLines(_, _)
SplitLines(bytes, cur) ==
  IF bytes = <<>> THEN (IF cur = <<>> THEN <<>> ELSE <<cur>>)
  ELSE IF Head(bytes) = NL THEN <<cur \o <<NL>>>> \o SplitLines(Tail(bytes), <<>>)
  ELSE SplitLines(Tail(bytes), cur \o <<Head(bytes)>>)

ReadLines(bytes) == SplitLines(bytes, <<>>)

\* str.strip()
RECURSIVE StripLeft(_)
StripLeft(line) ==
  IF line # <<>> /\ Head(line) \in {NL, SP} THEN StripLeft(Tail(line)) ELSE line
RECURSIVE StripRight(_)
StripRight(line) ==
  IF line # <<>> /\ line[Len(line)] \in {NL, SP}
  THEN StripRight(SubSeq(line, 1, Len(line) - 1)) ELSE line
Strip(line) == StripRight(StripLeft(line))

\* json.loads on the stripped line: the value, or ok = FALSE for JSONDecodeError
JsonLoads(s) ==
  IF Len(s) = 3 /\ s[1] = "{" /\ s[3] = "}" /\ s[2] \in Bodies
  THEN [ok |-> TRUE, value |-> EntryOf(s[2])]
  ELSE IF s = <<"7">> THEN [ok |-> TRUE, value |-> Num]
  ELSE [ok |-> FALSE]

\* byte i cannot be decoded: an invalid byte, the first byte of a character
\* whose second byte is missing, or a second byte without its first
BadAt(bytes, i) ==
  \/ bytes[i] = BadByte
  \/ bytes[i] = Lead /\ (i = Len(bytes) \/ bytes[i + 1] # Cont)
  \/ bytes[i] = Cont /\ (i = 1 \/ bytes[i - 1] # Lead)

\* the text decoder fails on a chunk that holds an invalid byte
Undecodable(bytes) == \E i \in DOMAIN bytes : BadAt(bytes, i)

\* the first invalid byte's position
FirstBad(bytes) == CHOOSE i \in DOMAIN bytes : BadAt(bytes, i) /\ \A k \in 1..(i - 1) : ~BadAt(bytes, k)

(***************************************************************************)
(* Rendering of one message to the fragment the watcher broadcasts         *)
(* (_render_message_html over _render_content_to_html) and its JSON        *)
(* encoding.                                                               *)
(***************************************************************************)
\* _escape_html on one atom of a string
EscapeAtom(a) ==
  CASE a = "&" -> "&amp;"
    [] a = "<" -> "&lt;"
    [] a = ">" -> "&gt;"
    [] a = "\"" -> "&quot;"
    [] a = "'" -> "&#x27;"
    [] OTHER -> a
EscapeHtml(v) == [i \in DOMAIN StrAtoms(v) |-> EscapeAtom(StrAtoms(v)[i])]

\* text.replace(...) raises AttributeError when text is not a str
EscapeRaises(v) == v.j \notin {"str", "text"}

\* x[:8] raises TypeError on a number, None or a dict
SliceRaises(v) == v.j \notin {"str", "text", "list"}

\* the image branch (lines 541-556 and 578-592): the base64 payload goes into
\* the src attribute as it is, the url is escaped
RenderImage(part) ==
  IF part.has_full_data THEN <<"data:image/jpeg;base64,">> \o StrAtoms(Get(part.source, "data", Null))
  ELSE IF Truthy(part.data_url) THEN EscapeHtml(part.data_url)
  ELSE <<"[Image Data]">>
ImageRaises(part) ==
  ~part.has_full_data /\ Truthy(part.data_url) /\ EscapeRaises(part.data_url)

\* rendering this part raises
PartRenderRaises(part) ==
  CASE part.type = "text" -> EscapeRaises(part.text)
    [] part.type = "thinking" -> EscapeRaises(part.thinking)
    [] part.type = "tool_use" -> EscapeRaises(part.name)
    [] part.type = "image" -> ImageRaises(part)
    [] part.type = "tool_reference" -> EscapeRaises(part.tool_name)
    [] part.type = "tool_result" ->
         \/ IF Truthy(part.tool_name) THEN EscapeRaises(part.tool_name)
            ELSE SliceRaises(part.tool_use_id)
         \/ part.content.type = "text" /\ EscapeRaises(part.content.text)
         \/ part.content.type = "image" /\ ImageRaises(part.content)
    [] OTHER -> FALSE

\* the div one part renders to
RenderPart(part) ==
  CASE part.type = "text" -> [class |-> "content-text", body |-> EscapeHtml(part.text)]
    [] part.type = "thinking" -> [class |-> "content-thinking", body |-> EscapeHtml(part.thinking)]
    [] part.type = "tool_use" ->
         [class |-> "content-tool-use", body |-> EscapeHtml(part.name) \o EscapeHtml(part.input)]
    [] part.type = "image" -> [class |-> "content-image", body |-> RenderImage(part)]
    [] part.type = "tool_reference" ->
         [class |-> "content-tool-reference", body |-> EscapeHtml(part.tool_name)]
    [] part.type = "tool_result" ->
         [class |-> "content-tool-result",
          body |-> (IF Truthy(part.tool_name) THEN EscapeHtml(part.tool_name)
                    ELSE IF part.tool_use_id.j = "str"
                         THEN <<EscapeAtom(Trunc8(part.tool_use_id.s)), "...">>
                         ELSE EscapeHtml(part.tool_use_id) \o <<"...">>)
                   \o (IF part.content.type = "text" THEN EscapeHtml(part.content.text)
                       ELSE IF part.content.type = "image" THEN RenderImage(part.content)
                       ELSE <<>>)]

RenderContentToHtml(content) ==
  IF "parts" \notin DOMAIN content
  THEN <<[class |-> "", body |-> EscapeHtml(content)]>>  \* isinstance(content, str)
  ELSE IF content.parts = <<>> THEN <<[class |-> "", body |-> EscapeHtml(content.text)]>>
  ELSE [i \in DOMAIN content.parts |-> RenderPart(content.parts[i])]

\* str.upper() on the atoms of a subagent type
UpperAtom(a) ==
  CASE a = "Explore" -> "EXPLORE"
    [] a = "general-purpose" -> "GENERAL-PURPOSE"
    [] OTHER -> a
Upper(atoms) == [i \in DOMAIN atoms |-> UpperAtom(atoms[i])]

\* the role line of the fragment (the icons are left out)
RoleDisplay(msg) ==
  CASE msg.role \in {"subagent_user", "subagent_assistant"} ->
         <<"Subagent (">>
         \o (IF Truthy(msg.metadata.subagent_type)
             THEN Upper(StrAtoms(msg.metadata.subagent_type))
             ELSE IF msg.metadata.agent_id.j = "str"
                  THEN <<Trunc8(msg.metadata.agent_id.s), "...">>
                  ELSE StrAtoms(msg.metadata.agent_id) \o <<"...">>)
         \o <<IF msg.role = "subagent_user" THEN ") - User" ELSE ") - Assistant">>
    [] msg.role = "user" -> <<"User">>
    [] msg.role = "assistant" -> <<"Claude">>
    [] msg.role = "tool_use" -> <<"Tool Use">>
    [] msg.role = "tool_result" -> <<"Tool Result">>
    [] msg.role = "system" -> <<"System">>
    [] OTHER -> <<msg.role>>

\* subagent_type.upper() or agent_id[:8] raises
RoleDisplayRaises(msg) ==
  /\ msg.role \in {"subagent_user", "subagent_assistant"}
  /\ IF Truthy(msg.metadata.subagent_type) THEN EscapeRaises(msg.metadata.subagent_type)
     ELSE SliceRaises(msg.metadata.agent_id)

\* _render_message_html (or the loop body of save_as_html) raises on this message
RenderRaises(msg) ==
  \/ RoleDisplayRaises(msg)
  \/ IF "parts" \in DOMAIN msg.content
     THEN \/ \E i \in DOMAIN msg.content.parts : PartRenderRaises(msg.content.parts[i])
          \/ msg.content.parts = <<>> /\ EscapeRaises(msg.content.text)
     ELSE EscapeRaises(msg.content)

RenderMessageHtml(msg) ==
  [class |-> msg.role, role |-> RoleDisplay(msg), content |-> RenderContentToHtml(msg.content)]

\* json.dumps of the fragment: the string the event stream carries
JsonDumps(fragment) == [json |-> fragment]

(***************************************************************************)
(* State.                                                                  *)
(***************************************************************************)
VARIABLES
  file,          \* the bytes of the source file
  pending,       \* the bytes the session's writer has still to append
  mode,          \* "watch": WatchServer.start; "batch": extract_conversation
  detailed,      \* the detailed argument of extract_conversation
  pc,            \* where the main thread is
  rd_lines,      \* the lines the current read returned (f / new_lines)
  rd_i,          \* index of the next line of rd_lines to parse
  rd_base,       \* byte offset in the file of the first line of rd_lines
  rd_end,        \* f.tell() after the read
  rd_err,        \* the read raised after yielding rd_lines
  conversation,  \* the list _load_initial / extract_conversation builds
  _tool_use_to_name,
  _tool_use_to_subagent_type,
  _last_offset,
  _last_size,
  initial_html,  \* the fragments of the document: the page served at "/", or the
                 \* file save_as_html writes
  pcP,           \* where the poll thread is
  payload,       \* the fragment _broadcast is enqueuing
  bcast_i,       \* position of _broadcast's loop in _subscribers
  _subscribers,  \* the registry: the queues, named by their viewer
  queues,        \* the content of each viewer's queue
  pcH,           \* where each viewer's request handler is
  page,          \* the fragments of the document each viewer's browser loaded
  received,      \* the events each viewer's handler took from its queue and wrote
  joined_at,     \* how many fragments had been published when each viewer subscribed
  published,     \* every fragment _broadcast was called with, in order
  readable,      \* the source file exists and can be opened
  io_failed,     \* an open() or stat() of the source file has raised OSError
  diagnostics    \* how many error lines the process has printed

vars == <<file, pending, mode, detailed, pc, rd_lines, rd_i, rd_base, rd_end, rd_err,
          conversation, _tool_use_to_name, _tool_use_to_subagent_type, _last_offset,
          _last_size, initial_html, pcP, payload, bcast_i, _subscribers, queues, pcH,
          page, received, joined_at, published, readable, io_failed, diagnostics>>

envVars == <<file, pending>>
faultVars == <<readable, io_failed, diagnostics>>
readVars == <<rd_lines, rd_i, rd_base, rd_end, rd_err>>
tableVars == <<_tool_use_to_name, _tool_use_to_subagent_type>>
ckptVars == <<_last_offset, _last_size>>
pollVars == <<pcP, payload, bcast_i, published>>
serverVars == <<_subscribers, queues, pcH, page, received, joined_at>>

\* what a text-mode read of the bytes from offset base yields: every line,
\* or, when a byte cannot be decoded, some of the lines before it and an error
\* (the decoder works on buffered chunks, so a line before the bad byte may
\* or may not have been returned when the error is raised; a character cut
\* off by the end of the file is reported only at the end of the file, after
\* every whole line before it was returned)
ReadOutcomes(bytes) ==
  IF Undecodable(bytes)
  THEN LET before == ReadLines(SubSeq(bytes, 1, FirstBad(bytes) - 1))
           whole == SelectSeq(before, LAMBDA l : l[Len(l)] = NL)
       IN  IF FirstBad(bytes) = Len(bytes) /\ bytes[Len(bytes)] = Lead
           THEN {[lines |-> whole, err |-> TRUE]}
           ELSE {[lines |-> SubSeq(whole, 1, k), err |-> TRUE] : k \in 0..Len(whole)}
  ELSE {[lines |-> ReadLines(bytes), err |-> FALSE]}

\* byte offset at which line i of the current read starts
RECURSIVE LineStart(_, _, _)
LineStart(ls, base, i) == IF i <= 1 THEN base ELSE LineStart(Tail(ls), base + Len(Head(ls)), i - 1)

\* a message with the byte offset of the line it was parsed from
Parsed(msg, at) == [msg |-> msg, at |-> at]

(***************************************************************************)
(* Reading a whole file: _load_initial (the watcher's bootstrap) and       *)
(* extract_conversation (the batch parser).                                *)
(***************************************************************************)
\* the body of _load_initial's loop on one line: blank lines are skipped,
\* a line json.loads rejects or _parse_entry raises on is skipped
LoadLineResult(line, names, subs) ==
  Bind(Strip(line), LAMBDA stripped :
  Bind(JsonLoads(stripped), LAMBDA loaded :
    IF stripped = <<>> \/ ~loaded.ok THEN Result(names, subs, NoMsg)
    ELSE Bind(ParseEntry(loaded.value, names, subs), LAMBDA r :
           IF r.out.kind = "raise" THEN Result(r.names, r.subs, NoMsg) ELSE r)))

\* a loop body that keeps a record's registrations only when the record
\* yields a message
ExtractLineResultEmittedOnly(line, names, subs, det) ==
  Bind(JsonLoads(Strip(line)), LAMBDA loaded :
    IF ~loaded.ok THEN Result(names, subs, NoMsg)
    ELSE Bind(ExtractEntry(loaded.value, names, subs, det), LAMBDA r :
           IF r.out.kind # "msg" THEN Result(names, subs, NoMsg) ELSE r))

\* the body of extract_conversation's loop on one line
ExtractLineResult(line, names, subs, det) ==
  Bind(JsonLoads(Strip(line)), LAMBDA loaded :
    IF ~loaded.ok THEN Result(names, subs, NoMsg)
    ELSE Bind(ExtractEntry(loaded.value, names, subs, det), LAMBDA r :
           IF r.out.kind = "raise" THEN Result(r.names, r.subs, NoMsg) ELSE r))

\* conversation = [], the tables reset, the file opened and read
LoadOpen ==
  /\ pc = "load_open"
  /\ IF readable
     THEN /\ \E r \in ReadOutcomes(file) :
               /\ rd_lines' = r.lines
               /\ rd_err' = r.err
          /\ rd_end' = Len(file)
          /\ UNCHANGED io_failed
     ELSE \* open() raises OSError: the outer except clause is next
          /\ rd_lines' = <<>>
          /\ rd_err' = TRUE
          /\ rd_end' = 0
          /\ io_failed' = TRUE
  /\ rd_i' = 1
  /\ rd_base' = 0
  /\ conversation' = <<>>
  /\ _tool_use_to_name' = EmptyTable
  /\ _tool_use_to_subagent_type' = EmptyTable
  /\ pc' = "load_lines"
  /\ UNCHANGED <<envVars, readable, diagnostics, mode, detailed, ckptVars, initial_html,
                 pollVars, serverVars>>

\* a loop body that fills the tool names of the messages already emitted
\* with the names the current line registered
LoadLineBackfill ==
  /\ pc = "load_lines"
  /\ rd_i <= Len(rd_lines)
  /\ \E r \in {LoadLineResult(rd_lines[rd_i], _tool_use_to_name, _tool_use_to_subagent_type)} :
         /\ _tool_use_to_name' = r.names
         /\ _tool_use_to_subagent_type' = r.subs
         /\ \E earlier \in {[k \in DOMAIN conversation |->
                                [conversation[k] EXCEPT !.msg.content =
                                   IF "parts" \in DOMAIN conversation[k].msg.content
                                   THEN FillToolNames(@, r.names) ELSE @]]} :
              conversation' = IF r.out.kind = "msg"
                              THEN Append(earlier,
                                          Parsed(r.out.msg, LineStart(rd_lines, rd_base, rd_i)))
                              ELSE earlier
  /\ rd_i' = rd_i + 1
  /\ UNCHANGED <<envVars, faultVars, mode, detailed, pc, rd_lines, rd_base, rd_end, rd_err, ckptVars,
                 initial_html, pollVars, serverVars>>

LoadLine ==
  /\ pc = "load_lines"
  /\ rd_i <= Len(rd_lines)
  /\ \E r \in {LoadLineResult(rd_lines[rd_i], _tool_use_to_name, _tool_use_to_subagent_type)} :
         /\ _tool_use_to_name' = r.names
         /\ _tool_use_to_subagent_type' = r.subs
         /\ conversation' = IF r.out.kind = "msg"
                            THEN Append(conversation,
                                        Parsed(r.out.msg, LineStart(rd_lines, rd_base, rd_i)))
                            ELSE conversation
  /\ rd_i' = rd_i + 1
  /\ UNCHANGED <<envVars, faultVars, mode, detailed, pc, rd_lines, rd_base, rd_end, rd_err, ckptVars,
                 initial_html, pollVars, serverVars>>

\* self._last_offset = f.tell(), skipped when the open or the read raised:
\* the except clause prints the error instead; the file is closed and the
\* loop's locals are dead
LoadTell ==
  /\ pc = "load_lines"
  /\ rd_i > Len(rd_lines)
  /\ _last_offset' = IF rd_err THEN _last_offset ELSE rd_end
  /\ diagnostics' = IF rd_err THEN diagnostics + 1 ELSE diagnostics
  /\ pc' = "load_stat"
  /\ rd_lines' = <<>> /\ rd_i' = 1 /\ rd_base' = 0 /\ rd_end' = 0
  /\ UNCHANGED <<envVars, readable, io_failed, mode, detailed, rd_err, conversation, tableVars,
                 _last_size, initial_html, pollVars, serverVars>>

\* self._last_size = self.jsonl_path.stat().st_size, or _last_offset when
\* stat() raises
LoadStat ==
  /\ pc = "load_stat"
  /\ _last_size' = IF readable THEN Len(file) ELSE _last_offset
  /\ io_failed' = (io_failed \/ ~readable)
  /\ pc' = "build"
  /\ UNCHANGED <<envVars, readable, diagnostics, mode, detailed, readVars, conversation,
                 tableVars, _last_offset, initial_html, pollVars, serverVars>>

ExtractOpen ==
  /\ pc = "ex_open"
  /\ IF readable
     THEN /\ \E r \in ReadOutcomes(file) :
               /\ rd_lines' = r.lines
               /\ rd_err' = r.err
          /\ rd_end' = Len(file)
          /\ UNCHANGED io_failed
     ELSE \* open() raises OSError: the outer except clause is next
          /\ rd_lines' = <<>>
          /\ rd_err' = TRUE
          /\ rd_end' = 0
          /\ io_failed' = TRUE
  /\ rd_i' = 1
  /\ rd_base' = 0
  /\ conversation' = <<>>
  /\ _tool_use_to_name' = EmptyTable
  /\ _tool_use_to_subagent_type' = EmptyTable
  /\ pc' = "ex_lines"
  /\ UNCHANGED <<envVars, readable, diagnostics, mode, detailed, ckptVars, initial_html,
                 pollVars, serverVars>>

ExtractLine ==
  /\ pc = "ex_lines"
  /\ rd_i <= Len(rd_lines)
  /\ \E r \in {ExtractLineResult(rd_lines[rd_i], _tool_use_to_name,
                                  _tool_use_to_subagent_type, detailed)} :
         /\ _tool_use_to_name' = r.names
         /\ _tool_use_to_subagent_type' = r.subs
         /\ conversation' = IF r.out.kind = "msg"
                            THEN Append(conversation,
                                        Parsed(r.out.msg, LineStart(rd_lines, rd_base, rd_i)))
                            ELSE conversation
  /\ rd_i' = rd_i + 1
  /\ UNCHANGED <<envVars, faultVars, mode, detailed, pc, rd_lines, rd_base, rd_end, rd_err, ckptVars,
                 initial_html, pollVars, serverVars>>

\* return conversation, after the except clause has printed the error when
\* the open or the read raised
ExtractReturn ==
  /\ pc = "ex_lines"
  /\ rd_i > Len(rd_lines)
  /\ diagnostics' = IF rd_err THEN diagnostics + 1 ELSE diagnostics
  /\ pc' = "ex_done"
  /\ UNCHANGED <<envVars, readable, io_failed, mode, detailed, readVars, conversation,
                 tableVars, ckptVars, initial_html, pollVars, serverVars>>

\* the messages before the first one whose rendering raises
RECURSIVE RenderedPrefix(_)
RenderedPrefix(conv) ==
  IF conv = <<>> \/ RenderRaises(Head(conv).msg) THEN <<>>
  ELSE <<[html |-> RenderMessageHtml(Head(conv).msg), at |-> Head(conv).at]>>
       \o RenderedPrefix(Tail(conv))

\* start(): the document is rendered once from the bootstrap's conversation,
\* the HTTP server is created and the poll thread started
Start ==
  /\ pc = "build"
  /\ mode = "watch"
  /\ IF \E k \in DOMAIN conversation : RenderRaises(conversation[k].msg)
     THEN \* _build_initial_html raises out of start(): no server, no poll thread
          /\ pc' = "crashed"
          /\ UNCHANGED <<initial_html, pcP>>
     ELSE /\ initial_html' = [k \in DOMAIN conversation |->
                                [html |-> RenderMessageHtml(conversation[k].msg),
                                 at |-> conversation[k].at]]
          /\ pcP' = "sleep"
          /\ pc' = "serve"
  /\ UNCHANGED <<envVars, faultVars, mode, detailed, readVars, conversation, tableVars, ckptVars,
                 payload, bcast_i, published, serverVars>>

\* save_as_html on the conversation extract_conversation returned: the
\* messages are rendered and written one by one; a rendering that raises
\* leaves the document with the messages before it and ends the export
SaveAsHtml ==
  /\ pc = "ex_done"
  /\ mode = "batch"
  /\ \E written \in {RenderedPrefix(conversation)} :
       /\ initial_html' = written
       /\ pc' = IF Len(written) = Len(conversation) THEN "saved" ELSE "save_failed"
  /\ UNCHANGED <<envVars, faultVars, mode, detailed, readVars, conversation, tableVars, ckptVars,
                 pollVars, serverVars>>

(***************************************************************************)
(* A parse session over a complete file: the batch parser in either mode,  *)
(* or the watcher's bootstrap, on every file of at most MaxLines lines.    *)
(***************************************************************************)
ParseFiles == {FileOf(ls) : ls \in SeqsOf(ParseLines, 0, MaxLines)}

InitCommon ==
  /\ rd_lines = <<>>
  /\ rd_i = 1
  /\ rd_base = 0
  /\ rd_end = 0
  /\ rd_err = FALSE
  /\ conversation = <<>>
  /\ _tool_use_to_name = EmptyTable
  /\ _tool_use_to_subagent_type = EmptyTable
  /\ _last_offset = 0
  /\ _last_size = 0
  /\ initial_html = <<>>
  /\ pcP = "off"
  /\ payload = Null
  /\ bcast_i = 1
  /\ _subscribers = <<>>
  /\ queues = [v \in Viewers |-> <<>>]
  /\ pcH = [v \in Viewers |-> "idle"]
  /\ page = [v \in Viewers |-> <<>>]
  /\ received = [v \in Viewers |-> <<>>]
  /\ joined_at = [v \in Viewers |-> 0]
  /\ published = <<>>
  /\ io_failed = FALSE
  /\ diagnostics = 0

InitParse ==
  /\ \/ readable = TRUE /\ file \in ParseFiles
     \/ readable = FALSE /\ file = <<>>
  /\ pending = <<>>
  /\ \/ mode = "watch" /\ detailed = TRUE /\ pc = "load_open"
     \/ mode = "batch" /\ detailed \in BOOLEAN /\ pc = "ex_open"
  /\ InitCommon

NextParse ==
  \/ LoadOpen
  \/ LoadLine
  \/ LoadTell
  \/ LoadStat
  \/ ExtractOpen
  \/ ExtractLine
  \/ ExtractReturn
  \/ Start
  \/ SaveAsHtml

SpecParse == InitParse /\ [][NextParse]_vars

(***************************************************************************)
(* Properties of a parse session.                                          *)
(***************************************************************************)
ParseDone == pc \in {"load_stat", "build", "ex_done"}

\* the messages of the lines of a file, each line taken on its own: a line
\* that cannot be decoded or parsed is skipped and the next one is read
RECURSIVE ValidMessages(_, _, _, _, _)
ValidMessages(ls, i, names, subs, acc) ==
  IF i > Len(ls) THEN acc
  ELSE LET r == IF Undecodable(ls[i]) THEN Result(names, subs, NoMsg)
                ELSE IF mode = "watch" THEN LoadLineResult(ls[i], names, subs)
                ELSE ExtractLineResult(ls[i], names, subs, detailed)
       IN  ValidMessages(ls, i + 1, r.names, r.subs,
                         IF r.out.kind = "msg"
                         THEN Append(acc, Parsed(r.out.msg, LineStart(ls, 0, i)))
                         ELSE acc)

\* C9: a parse session (extract_conversation, or the watcher's bootstrap)
\* returns exactly the messages of the valid lines of the file, in file order,
\* whatever malformed lines (empty, invalid JSON, not an object, unexpected
\* shape, undecodable bytes) stand between them.
C9_CorruptLineNeverAbortsSession ==
  ParseDone => conversation = ValidMessages(ReadLines(file), 1, EmptyTable, EmptyTable, <<>>)

\* the messages extract_conversation returns in detailed mode for the lines
\* of a file
RECURSIVE DetailedMessages(_, _, _, _, _)
DetailedMessages(ls, i, names, subs, acc) ==
  IF i > Len(ls) THEN acc
  ELSE Bind(ExtractLineResult(ls[i], names, subs, TRUE), LAMBDA r :
         DetailedMessages(ls, i + 1, r.names, r.subs,
                          IF r.out.kind = "msg"
                          THEN Append(acc, Parsed(r.out.msg, LineStart(ls, 0, i)))
                          ELSE acc))

\* C29: for a file both can read, the message sequence the watcher's
\* bootstrap builds is the sequence extract_conversation returns for it in
\* detailed mode: same roles, contents, metadata and order.
C29_BootstrapEqualsDetailedBatch ==
  (mode = "watch" /\ ParseDone /\ ~rd_err) =>
    conversation = DetailedMessages(ReadLines(file), 1, EmptyTable, EmptyTable, <<>>)

\* the message of a subagent progress record whose role matches its type
\* (the set is empty for any other record)
SubagentMessages(entry) ==
  IF Get(entry, "type", Null) = Str("progress") /\ IsDict(Get(entry, "data", Null))
     /\ Get(entry.f["data"], "type", Null) = Str("agent_progress")
     /\ IsDict(Get(entry.f["data"], "message", Null))
  THEN LET message_data == entry.f["data"].f["message"]
           msg == Get(message_data, "message", EmptyDict)
       IN  IF Get(message_data, "type", Null) \in {Str("user"), Str("assistant")}
              /\ IsDict(msg) /\ Get(msg, "role", Null) = Get(message_data, "type", Null)
           THEN {msg} ELSE {}
  ELSE {}

\* the blocks of the list content of a top-level assistant record
TopLevelBlocks(entry) ==
  IF Get(entry, "type", Null) = Str("assistant") /\ Has(entry, "message")
     /\ IsDict(entry.f["message"])
     /\ Get(entry.f["message"], "role", Null) = Str("assistant")
     /\ IsList(Get(entry.f["message"], "content", Null))
  THEN entry.f["message"].f["content"].items
  ELSE <<>>

\* the blocks of the list content of a subagent progress record
SubagentBlocks(entry) ==
  IF \E msg \in SubagentMessages(entry) : IsList(Get(msg, "content", Null))
  THEN (CHOOSE msg \in SubagentMessages(entry) : TRUE).f["content"].items
  ELSE <<>>

\* the names of the tool_use blocks with this id that a record carries, in a
\* top-level assistant message or in a subagent message
ToolUseNames(line, id) ==
  LET loaded == JsonLoads(Strip(line))
  IN  IF ~loaded.ok \/ ~IsDict(loaded.value) THEN <<>>
      ELSE LET items == TopLevelBlocks(loaded.value) \o SubagentBlocks(loaded.value)
               uses == SelectSeq(items, LAMBDA b :
                         IsDict(b) /\ Get(b, "type", Null) = Str("tool_use")
                         /\ Get(b, "id", Null) = id /\ Has(b, "name"))
           IN  [k \in DOMAIN uses |-> uses[k].f["name"]]

\* the names given to id by the records that start before byte offset at, in file order
RECURSIVE NamesBefore(_, _, _, _)
NamesBefore(ls, base, at, id) ==
  IF ls = <<>> \/ base >= at THEN <<>>
  ELSE ToolUseNames(Head(ls), id) \o NamesBefore(Tail(ls), base + Len(Head(ls)), at, id)

\* the tool_result parts of an emitted message
HasParts(m) == "parts" \in DOMAIN m.content
ToolResultParts(m) ==
  IF HasParts(m) THEN SelectSeq(m.content.parts, LAMBDA q : q.type = "tool_result") ELSE <<>>

\* C10: a tool_result part carries the name of the tool_use record with its id
\* that precedes it in the file (the latest one), and no name when no such
\* record precedes it, in particular when the tool_use record comes later.
C10_ToolNameByFileOrder ==
  \A k \in DOMAIN conversation :
    LET parts == ToolResultParts(conversation[k].msg)
    IN  \A n \in DOMAIN parts :
          LET before == NamesBefore(ReadLines(file), 0, conversation[k].at, parts[n].tool_use_id)
          IN  parts[n].tool_name = IF before = <<>> THEN Null ELSE before[Len(before)]

\* a session that emitted an unresolved tool_result whose tool_use record comes
\* later in the file, and a resolved one
C10_Witness ==
  /\ ParseDone
  /\ \E k \in DOMAIN conversation :
       \E n \in DOMAIN ToolResultParts(conversation[k].msg) :
         LET q == ToolResultParts(conversation[k].msg)[n]
         IN  /\ q.tool_name = Null
             /\ NamesBefore(ReadLines(file), 0, Len(file), q.tool_use_id) # <<>>
  /\ \E k \in DOMAIN conversation :
       \E n \in DOMAIN ToolResultParts(conversation[k].msg) :
         ToolResultParts(conversation[k].msg)[n].tool_name = Str("Read")

\* the text projection of an emitted message: the text field of a normalized
\* content, or the content itself when it is a plain string
TextOf(m) == IF HasParts(m) THEN m.content.text ELSE m.content

\* text.strip() is the empty string
Blank(text) ==
  CASE text.j = "str" -> text.s \in WhiteAtoms
    [] text.j = "text" -> \A i \in DOMAIN text.atoms : text.atoms[i] \in WhiteAtoms
    [] OTHER -> FALSE

\* the detailed flag the session normalizes with
SessionDetailed == IF mode = "watch" THEN TRUE ELSE detailed

\* the line is a user or assistant record whose normalized content trims to
\* the empty string
BlankRecord(line) ==
  LET loaded == JsonLoads(Strip(line))
  IN  /\ loaded.ok
      /\ IsDict(loaded.value)
      /\ Get(loaded.value, "type", Null) \in {Str("user"), Str("assistant")}
      /\ Has(loaded.value, "message")
      /\ IsDict(loaded.value.f["message"])
      /\ LET n == ExtractRichContent(Get(loaded.value.f["message"], "content", Str("")),
                                     SessionDetailed)
         IN  ~n.raised /\ Blank(n.text)

\* C11: every message of the conversation has a text projection that is a
\* string and is not empty after trimming, and a record whose normalized
\* content trims to empty has no message in the conversation.
C11_EmittedTextNeverBlank ==
  /\ \A k \in DOMAIN conversation :
       /\ TextOf(conversation[k].msg).j \in {"str", "text"}
       /\ ~Blank(TextOf(conversation[k].msg))
  /\ \A i \in DOMAIN ReadLines(file) :
       BlankRecord(ReadLines(file)[i]) =>
         \A k \in DOMAIN conversation :
           conversation[k].at # LineStart(ReadLines(file), 0, i)

\* a finished batch session without the detailed flag over a file that holds
\* an assistant record with only a tool_use block, next to a record that was
\* emitted
C11_Witness ==
  /\ pc = "ex_done"
  /\ ~detailed
  /\ \E i \in DOMAIN ReadLines(file) :
       /\ ReadLines(file)[i] = RecordLine("a_read") \o <<NL>>
       /\ BlankRecord(ReadLines(file)[i])
  /\ Len(conversation) = 2

\* save_as_json followed by json.load: the JSON value a part is read back as
RECURSIVE PartJson(_)
PartJson(part) ==
  CASE part.type = "text" -> Dict([type |-> Str("text"), text |-> part.text])
    [] part.type = "thinking" ->
         Dict([type |-> Str("thinking"), thinking |-> part.thinking])
    [] part.type = "tool_use" ->
         Dict([type |-> Str("tool_use"), name |-> part.name, input |-> part.input])
    [] part.type = "image" ->
         IF part.has_full_data
         THEN Dict([type |-> Str("image"), source_type |-> part.source_type,
                    source |-> part.source])
         ELSE Dict([type |-> Str("image"), source_type |-> part.source_type])
    [] part.type = "tool_reference" ->
         Dict([type |-> Str("tool_reference"), tool_name |-> part.tool_name])
    [] part.type = "tool_result" ->
         Dict([type |-> Str("tool_result"), tool_use_id |-> part.tool_use_id,
               tool_name |-> part.tool_name, content |-> PartJson(part.content)])

PartsJson(parts) == List([i \in DOMAIN parts |-> PartJson(parts[i])])

\* the content of a saved message as it is read back
ContentJson(content) ==
  IF "parts" \in DOMAIN content
  THEN Dict([type |-> Str(content.type), text |-> content.text,
             parts |-> PartsJson(content.parts)])
  ELSE content

\* two text projections are the same string
SameText(a, b) == StrAtoms(a) = StrAtoms(b)

\* the saved content given back to the normalizer as a whole
BackFromContent(m) == ExtractRichContent(ContentJson(m.content), TRUE)
\* the saved parts list given back to the normalizer
BackFromParts(m) ==
  IF HasParts(m) THEN ExtractRichContent(PartsJson(m.content.parts), TRUE)
  ELSE ExtractRichContent(m.content, TRUE)

\* C16: the messages of a conversation, saved as JSON and given back to the
\* normalizer (the saved content as a whole, or its parts list), have the text
\* projection they had.
C16_JsonRoundTripKeepsText ==
  \/ \A k \in DOMAIN conversation :
       /\ ~BackFromContent(conversation[k].msg).raised
       /\ SameText(BackFromContent(conversation[k].msg).text, TextOf(conversation[k].msg))
  \/ \A k \in DOMAIN conversation :
       /\ ~BackFromParts(conversation[k].msg).raised
       /\ SameText(BackFromParts(conversation[k].msg).text, TextOf(conversation[k].msg))

\* the text the normalizer builds from a parts list (lines 439-486)
Flattening(parts) == Collapse([raised |-> FALSE, parts |-> parts])

\* C19: the text field of every emitted message is the flattening of its
\* parts list as the fill pass left it: the single text part itself, or the
\* per-part formatting in which a tool_result is labelled with its resolved
\* tool name, or with its truncated id when unresolved.
C19_TextIsFlatteningOfParts ==
  \A k \in DOMAIN conversation :
    HasParts(conversation[k].msg) =>
      /\ ~Flattening(conversation[k].msg.content.parts).raised
      /\ SameText(conversation[k].msg.content.text,
                  Flattening(conversation[k].msg.content.parts).text)

\* the content values a top-level user or assistant record hands to the normalizer
NormalizerInputs(line) ==
  LET loaded == JsonLoads(Strip(line))
  IN  IF ~loaded.ok \/ ~IsDict(loaded.value) THEN {}
      ELSE LET entry == loaded.value
           IN  IF Get(entry, "type", Null) \in {Str("user"), Str("assistant")}
                  /\ Has(entry, "message") /\ IsDict(entry.f["message"])
                  /\ Get(entry.f["message"], "role", Null) = Get(entry, "type", Null)
               THEN {Get(entry.f["message"], "content",
                         IF Get(entry, "type", Null) = Str("user") THEN Str("")
                         ELSE List(<<>>))}
               ELSE {}

\* C20: the normalizer returns a content for the content value of every
\* record the parse loop has taken, whatever the shape of its blocks.
C20_NormalizerNeverRaises ==
  \A i \in DOMAIN rd_lines :
    i < rd_i => \A content \in NormalizerInputs(rd_lines[i]) :
                  ~ExtractRichContent(content, detailed).raised

\* C21: every message the parser emits is rendered: neither the building of
\* the watcher's document nor the export of the batch document ends on a
\* rendering error.
C21_RenderingIsTotal ==
  /\ pc \notin {"crashed", "save_failed"}
  /\ \A k \in DOMAIN conversation : ~RenderRaises(conversation[k].msg)

\* the characters _escape_html replaces
SpecialAtoms == {"&", "<", ">", "\"", "'"}

\* the pieces of a fragment that come from the record: the role line and the
\* bodies of the parts
FragmentAtoms(html) ==
  {html.role[i] : i \in DOMAIN html.role}
  \cup UNION {{html.content[n].body[i] : i \in DOMAIN html.content[n].body} :
              n \in DOMAIN html.content}

\* C22: no fragment of the document (the watcher's page or the batch export)
\* holds a <, >, &, or quote character that comes from a record.
C22_RecordTextIsEscaped ==
  \A k \in DOMAIN initial_html : FragmentAtoms(initial_html[k].html) \cap SpecialAtoms = {}

\* the ids the tool_use, tool_result and progress records name
ToolIds == {Str("t1"), Str("t2")}

\* the parse loop takes the line at rd_i
LineStep == pc \in {"load_lines", "ex_lines"} /\ pc' = pc /\ rd_i' = rd_i + 1

\* the subagent messages of the conversation
IsSubagent(m) == "metadata" \in DOMAIN m

\* C17: during a parse session no key leaves either resolution table; a line
\* that carries tool_use blocks for an id leaves the id bound to the name of
\* the last of them, whatever it was bound to, and every other id as it was;
\* a subagent message whose parent id is not in the kind table carries the
\* empty string as its subagent kind.
C17_TablesAppendOnlyLastWins ==
  /\ [][/\ DOMAIN _tool_use_to_name \subseteq DOMAIN _tool_use_to_name'
        /\ DOMAIN _tool_use_to_subagent_type \subseteq DOMAIN _tool_use_to_subagent_type'
        /\ LineStep =>
             \A id \in ToolIds :
               LET given == ToolUseNames(rd_lines[rd_i], id)
               IN  Lookup(_tool_use_to_name', id) =
                     IF given = <<>> THEN Lookup(_tool_use_to_name, id)
                     ELSE given[Len(given)]]_vars
  /\ [](\A k \in DOMAIN conversation :
          LET m == conversation[k].msg
          IN  (/\ IsSubagent(m)
               /\ m.metadata.parent_tool_use_id \notin DOMAIN _tool_use_to_subagent_type)
                => m.metadata.subagent_type = Str(""))

\* a finished session that registered t1 twice and kept the later name, and
\* emitted a subagent message before its parent id was registered
C17_Witness ==
  /\ ParseDone
  /\ NamesBefore(ReadLines(file), 0, Len(file), Str("t1")) = <<Str("Read"), Str("Write")>>
  /\ _tool_use_to_name = [k \in {Str("t1")} |-> Str("Write")]
  /\ \E k \in DOMAIN conversation :
       /\ IsSubagent(conversation[k].msg)
       /\ conversation[k].msg.metadata.parent_tool_use_id = Str("t2")
       /\ conversation[k].msg.metadata.subagent_type = Str("")

\* the last element of a non-empty sequence
Last(seq) == seq[Len(seq)]

\* line i of the file carries a tool_use block for id and yielded no message
SilentRegistration(i, id) ==
  /\ ToolUseNames(ReadLines(file)[i], id) # <<>>
  /\ \A k \in DOMAIN conversation :
       conversation[k].at # LineStart(ReadLines(file), 0, i)

\* C24: a record that carries tool_use blocks for an id and yields no message
\* (its content is filtered as empty, or detailed mode is off) still leaves
\* the id bound to the name of the last of them, and a tool_result emitted
\* from a later record after such a silent record carries the name the
\* records before it gave to its id.
C24_RegistrationBeforeFilter ==
  /\ [][(LineStep /\ conversation' = conversation) =>
          \A id \in ToolIds :
            ToolUseNames(rd_lines[rd_i], id) # <<>> =>
              /\ id \in DOMAIN _tool_use_to_name'
              /\ _tool_use_to_name'[id] = Last(ToolUseNames(rd_lines[rd_i], id))]_vars
  /\ [](\A k \in DOMAIN conversation :
          \A n \in DOMAIN ToolResultParts(conversation[k].msg) :
            LET q == ToolResultParts(conversation[k].msg)[n]
            IN  (\E i \in DOMAIN ReadLines(file) :
                   /\ LineStart(ReadLines(file), 0, i) < conversation[k].at
                   /\ SilentRegistration(i, q.tool_use_id))
                => q.tool_name = Last(NamesBefore(ReadLines(file), 0, conversation[k].at,
                                                  q.tool_use_id)))

\* a batch session without the detailed flag in which a subagent record with
\* only tool_use blocks yielded no message and the tool_result after it
\* carries the name that record registered
C24_Witness ==
  /\ pc = "ex_done"
  /\ ~detailed
  /\ Len(ReadLines(file)) = 2
  /\ ReadLines(file)[1] = RecordLine("p_task") \o <<NL>>
  /\ SilentRegistration(1, Str("t1"))
  /\ Len(conversation) = 1
  /\ ToolResultParts(conversation[1].msg) # <<>>
  /\ ToolResultParts(conversation[1].msg)[1].tool_name = Str("Grep")

\* the subagent kinds the spawn blocks (tool_use, name Task, a subagent_type
\* in the input) of a record give to id, in a top-level assistant message or
\* in a subagent message
SpawnKinds(line, id) ==
  LET loaded == JsonLoads(Strip(line))
  IN  IF ~loaded.ok \/ ~IsDict(loaded.value) THEN <<>>
      ELSE LET items == TopLevelBlocks(loaded.value) \o SubagentBlocks(loaded.value)
               spawns == SelectSeq(items, LAMBDA b :
                           /\ IsDict(b) /\ Get(b, "type", Null) = Str("tool_use")
                           /\ Get(b, "id", Null) = id
                           /\ Get(b, "name", Null) = Str("Task")
                           /\ IsDict(Get(b, "input", Null))
                           /\ Truthy(Get(b.f["input"], "subagent_type", Str(""))))
           IN  [k \in DOMAIN spawns |-> spawns[k].f["input"].f["subagent_type"]]

\* the kinds given to id by the records that start before byte offset at
RECURSIVE KindsBefore(_, _, _, _)
KindsBefore(ls, base, at, id) ==
  IF ls = <<>> \/ base >= at THEN <<>>
  ELSE SpawnKinds(Head(ls), id) \o KindsBefore(Tail(ls), base + Len(Head(ls)), at, id)

\* C25: a subagent message carries the subagent kind that the last spawn
\* block for its parent id, in a top-level assistant record or in a subagent
\* record before it, named.
C25_SpawnKindFromAnyRecord ==
  \A k \in DOMAIN conversation :
    IsSubagent(conversation[k].msg) =>
      LET kinds == KindsBefore(ReadLines(file), 0, conversation[k].at,
                               conversation[k].msg.metadata.parent_tool_use_id)
      IN  kinds # <<>> => conversation[k].msg.metadata.subagent_type = Last(kinds)

(***************************************************************************)
(* The watch session: WatchServer.start, the poll thread, the HTTP server  *)
(* and the browsers.                                                       *)
(***************************************************************************)
\* the session's writer appends the next bytes of the transcript
WriterAppend ==
  /\ readable
  /\ pending # <<>>
  /\ \E n \in 1..Len(pending) :
       /\ file' = file \o SubSeq(pending, 1, n)
       /\ pending' = SubSeq(pending, n + 1, Len(pending))
  /\ UNCHANGED <<faultVars, mode, detailed, pc, readVars, conversation, tableVars, ckptVars,
                 initial_html, pollVars, serverVars>>

\* _poll_loop: after the sleep, stat the file and compare its size
PollStat ==
  /\ pcP = "sleep"
  /\ readable
  /\ Len(file) # _last_size
  /\ pcP' = "read"
  /\ UNCHANGED <<envVars, faultVars, mode, detailed, pc, readVars, conversation, tableVars, ckptVars,
                 initial_html, payload, bcast_i, published, serverVars>>

\* a poll loop that ends when stat() raises
PollStatFailsExits ==
  /\ pcP = "sleep"
  /\ ~readable
  /\ io_failed' = TRUE
  /\ pcP' = "exited"
  /\ UNCHANGED <<envVars, readable, diagnostics, mode, detailed, pc, readVars, conversation,
                 tableVars, ckptVars, initial_html, payload, bcast_i, published, serverVars>>

\* _poll_loop when stat() raises: "except Exception: pass", and the loop
\* sleeps again
PollStatFails ==
  /\ pcP = "sleep"
  /\ ~readable
  /\ io_failed' = TRUE
  /\ UNCHANGED <<envVars, readable, diagnostics, mode, detailed, pc, readVars, conversation,
                 tableVars, ckptVars, initial_html, pollVars, serverVars>>

\* _process_new_content: seek to the checkpoint, readlines(), tell().
\* readlines() returns every line up to the end of the file, the last one
\* whether or not it ends in a newline.  A decoding error leaves the state
\* as it was.
PollRead ==
  /\ pcP = "read"
  /\ LET new_bytes == SubSeq(file, _last_offset + 1, Len(file))
     IN  IF ~readable
         THEN \* open() raises: "except Exception: pass"
              /\ pcP' = "sleep"
              /\ io_failed' = TRUE
              /\ UNCHANGED <<readVars, _last_offset>>
         ELSE IF Undecodable(new_bytes)
         THEN /\ pcP' = "sleep"
              /\ UNCHANGED <<readVars, _last_offset, io_failed>>
         ELSE \* a seek past the end of a file that shrank reads nothing and
              \* tell() is the position of the seek
              /\ rd_lines' = ReadLines(new_bytes)
              /\ rd_i' = 1
              /\ rd_base' = _last_offset
              /\ rd_end' = IF Len(file) > _last_offset THEN Len(file) ELSE _last_offset
              /\ rd_err' = FALSE
              /\ _last_offset' = IF Len(file) > _last_offset THEN Len(file) ELSE _last_offset
              /\ pcP' = "stat"
              /\ UNCHANGED io_failed
  /\ UNCHANGED <<envVars, readable, diagnostics, mode, detailed, pc, conversation, tableVars,
                 _last_size, initial_html, payload, bcast_i, published, serverVars>>

\* self._last_size = self.jsonl_path.stat().st_size; when stat() raises the
\* lines just read are dropped by "except Exception: pass"
PollSize ==
  /\ pcP = "stat"
  /\ IF readable
     THEN /\ _last_size' = Len(file)
          /\ pcP' = "lines"
          /\ UNCHANGED <<readVars, io_failed>>
     ELSE /\ pcP' = "sleep"
          /\ io_failed' = TRUE
          /\ rd_lines' = <<>> /\ rd_i' = 1 /\ rd_base' = 0 /\ rd_end' = 0
          /\ UNCHANGED <<rd_err, _last_size>>
  /\ UNCHANGED <<envVars, readable, diagnostics, mode, detailed, pc, conversation, tableVars,
                 _last_offset, initial_html, payload, bcast_i, published, serverVars>>

\* one line of new_lines: parse it and, when it yields a message, render it
\* and enter _broadcast, taking the registry lock
PollLine ==
  /\ pcP = "lines"
  /\ rd_i <= Len(rd_lines)
  /\ \E r \in {LoadLineResult(rd_lines[rd_i], _tool_use_to_name, _tool_use_to_subagent_type)} :
         /\ _tool_use_to_name' = r.names
         /\ _tool_use_to_subagent_type' = r.subs
         /\ IF r.out.kind = "msg" /\ ~RenderRaises(r.out.msg)
            THEN /\ payload' = [data |-> JsonDumps(RenderMessageHtml(r.out.msg)),
                                seq |-> Len(published) + 1,
                                at |-> LineStart(rd_lines, rd_base, rd_i)]
                 /\ published' = Append(published, payload')
                 /\ bcast_i' = 1
                 /\ pcP' = "bcast"
                 /\ rd_i' = rd_i
            ELSE \* nothing emitted, or the rendering raised: "except: continue"
                 /\ rd_i' = rd_i + 1
                 /\ UNCHANGED <<pcP, payload, bcast_i, published>>
  /\ UNCHANGED <<envVars, faultVars, mode, detailed, pc, rd_lines, rd_base, rd_end, rd_err, conversation,
                 ckptVars, initial_html, serverVars>>

\* the registry lock is held for the whole pass of _broadcast
LockHeld == pcP = "bcast"

\* a put that adds the fragment twice
BroadcastPutTwice ==
  /\ pcP = "bcast"
  /\ bcast_i <= Len(_subscribers)
  /\ queues' = [queues EXCEPT ![_subscribers[bcast_i]] = @ \o <<payload, payload>>]
  /\ bcast_i' = bcast_i + 1
  /\ UNCHANGED <<envVars, faultVars, mode, detailed, pc, readVars, conversation, tableVars, ckptVars,
                 initial_html, pcP, payload, published, _subscribers, pcH, page, received,
                 joined_at>>

\* a put on a stack instead of a queue
BroadcastPutFront ==
  /\ pcP = "bcast"
  /\ bcast_i <= Len(_subscribers)
  /\ queues' = [queues EXCEPT ![_subscribers[bcast_i]] = <<payload>> \o @]
  /\ bcast_i' = bcast_i + 1
  /\ UNCHANGED <<envVars, faultVars, mode, detailed, pc, readVars, conversation, tableVars, ckptVars,
                 initial_html, pcP, payload, published, _subscribers, pcH, page, received,
                 joined_at>>

\* a put on a queue of size one that waits for the consumer when it is full
BroadcastPutBounded ==
  /\ pcP = "bcast"
  /\ bcast_i <= Len(_subscribers)
  /\ Len(queues[_subscribers[bcast_i]]) < 1
  /\ queues' = [queues EXCEPT ![_subscribers[bcast_i]] = Append(@, payload)]
  /\ bcast_i' = bcast_i + 1
  /\ UNCHANGED <<envVars, faultVars, mode, detailed, pc, readVars, conversation, tableVars, ckptVars,
                 initial_html, pcP, payload, published, _subscribers, pcH, page, received,
                 joined_at>>

\* for q in self._subscribers: q.put(payload) -- one iteration
BroadcastPut ==
  /\ pcP = "bcast"
  /\ bcast_i <= Len(_subscribers)
  /\ queues' = [queues EXCEPT ![_subscribers[bcast_i]] = Append(@, payload)]
  /\ bcast_i' = bcast_i + 1
  /\ UNCHANGED <<envVars, faultVars, mode, detailed, pc, readVars, conversation, tableVars, ckptVars,
                 initial_html, pcP, payload, published, _subscribers, pcH, page, received,
                 joined_at>>

\* the loop of _broadcast is over: the lock is released, the next line follows
BroadcastDone ==
  /\ pcP = "bcast"
  /\ bcast_i > Len(_subscribers)
  /\ pcP' = "lines"
  /\ rd_i' = rd_i + 1
  /\ payload' = Null
  /\ bcast_i' = 1
  /\ UNCHANGED <<envVars, faultVars, mode, detailed, pc, rd_lines, rd_base, rd_end, rd_err, conversation,
                 tableVars, ckptVars, initial_html, published, serverVars>>

\* every line of new_lines is done: _process_new_content returns (its locals
\* are dead) and the loop sleeps
PollEnd ==
  /\ pcP = "lines"
  /\ rd_i > Len(rd_lines)
  /\ pcP' = "sleep"
  /\ rd_lines' = <<>> /\ rd_i' = 1 /\ rd_base' = 0 /\ rd_end' = 0
  /\ UNCHANGED <<envVars, faultVars, mode, detailed, pc, rd_err, conversation, tableVars, ckptVars,
                 initial_html, payload, bcast_i, published, serverVars>>

(***************************************************************************)
(* The HTTP side.  pcH[v] follows viewer v's browser tab and the handler   *)
(* of its request: "idle" (no tab), "want_root" (GET / sent), "want_events"*)
(* (page loaded, its script has opened EventSource('/events')),            *)
(* "subscribing" (do_GET has sent the headers of the stream), "stream"     *)
(* (in the loop, tab open), "gone" (in the loop, tab closed), "unsub" (the *)
(* loop raised on a write, the finally clause is next).                    *)
(***************************************************************************)
HandlerStates == {"subscribing", "stream", "gone", "unsub"}

\* HTTPServer.serve_forever handles one request at a time: while a do_GET
\* is running, no other request is accepted
ServerBusy == \E v \in Viewers : pcH[v] \in HandlerStates

Remove(seq, x) ==
  IF \E i \in DOMAIN seq : seq[i] = x
  THEN LET i == CHOOSE k \in DOMAIN seq : seq[k] = x /\ \A m \in 1..(k - 1) : seq[m] # x
       IN  SubSeq(seq, 1, i - 1) \o SubSeq(seq, i + 1, Len(seq))
  ELSE seq

\* a browser tab is opened on the server's url (the server socket exists
\* once start() has built the document)
OpenPage(v) ==
  /\ pc = "serve"
  /\ pcH[v] = "idle"
  /\ pcH' = [pcH EXCEPT ![v] = "want_root"]
  /\ UNCHANGED <<envVars, faultVars, mode, detailed, pc, readVars, conversation, tableVars, ckptVars,
                 initial_html, pollVars, _subscribers, queues, page, received, joined_at>>

\* do_GET for "/": the document built at start is sent
HandleRoot(v) ==
  /\ pc = "serve"
  /\ pcH[v] = "want_root"
  /\ page' = [page EXCEPT ![v] = initial_html]
  /\ pcH' = [pcH EXCEPT ![v] = "want_events"]
  /\ UNCHANGED <<envVars, faultVars, mode, detailed, pc, readVars, conversation, tableVars, ckptVars,
                 initial_html, pollVars, _subscribers, queues, received, joined_at>>

\* do_GET for "/events": the response headers are sent
HandleEvents(v) ==
  /\ pc = "serve"
  /\ pcH[v] = "want_events"
  /\ pcH' = [pcH EXCEPT ![v] = "subscribing"]
  /\ UNCHANGED <<envVars, faultVars, mode, detailed, pc, readVars, conversation, tableVars, ckptVars,
                 initial_html, pollVars, _subscribers, queues, page, received, joined_at>>

\* the single-threaded server accepts a request only when no handler runs
ServeRoot(v) == ~ServerBusy /\ HandleRoot(v)
ServeEvents(v) == ~ServerBusy /\ HandleEvents(v)

\* a subscribe that hands the new subscriber everything published so far
SubscribeWithBacklog(v) ==
  /\ pcH[v] = "subscribing"
  /\ ~LockHeld
  /\ _subscribers' = Append(_subscribers, v)
  /\ queues' = [queues EXCEPT ![v] = published]
  /\ joined_at' = [joined_at EXCEPT ![v] = Len(published)]
  /\ received' = [received EXCEPT ![v] = <<>>]
  /\ pcH' = [pcH EXCEPT ![v] = "stream"]
  /\ UNCHANGED <<envVars, faultVars, mode, detailed, pc, readVars, conversation, tableVars, ckptVars,
                 initial_html, pollVars, page>>

\* _subscribe: a new empty queue is appended to the registry under the lock
Subscribe(v) ==
  /\ pcH[v] = "subscribing"
  /\ ~LockHeld
  /\ _subscribers' = Append(_subscribers, v)
  /\ queues' = [queues EXCEPT ![v] = <<>>]
  /\ joined_at' = [joined_at EXCEPT ![v] = Len(published)]
  /\ received' = [received EXCEPT ![v] = <<>>]
  /\ pcH' = [pcH EXCEPT ![v] = "stream"]
  /\ UNCHANGED <<envVars, faultVars, mode, detailed, pc, readVars, conversation, tableVars, ckptVars,
                 initial_html, pollVars, page>>

\* a delivery whose failed write lets do_GET return without the finally clause
DeliverNoFinally(v) ==
  /\ pcH[v] \in {"stream", "gone"}
  /\ queues[v] # <<>>
  /\ queues' = [queues EXCEPT ![v] = Tail(@)]
  /\ received' = [received EXCEPT ![v] = Append(@, Head(queues[v]))]
  /\ pcH' = [pcH EXCEPT ![v] = IF @ = "gone" THEN "idle" ELSE @]
  /\ UNCHANGED <<envVars, faultVars, mode, detailed, pc, readVars, conversation, tableVars, ckptVars,
                 initial_html, pollVars, _subscribers, page, joined_at>>

\* data = sub_q.get(timeout=15) returned a fragment; it is written to the
\* stream, which raises when the tab is closed
Deliver(v) ==
  /\ pcH[v] \in {"stream", "gone"}
  /\ queues[v] # <<>>
  /\ queues' = [queues EXCEPT ![v] = Tail(@)]
  /\ received' = [received EXCEPT ![v] = Append(@, Head(queues[v]))]
  /\ pcH' = [pcH EXCEPT ![v] = IF @ = "gone" THEN "unsub" ELSE @]
  /\ UNCHANGED <<envVars, faultVars, mode, detailed, pc, readVars, conversation, tableVars, ckptVars,
                 initial_html, pollVars, _subscribers, page, joined_at>>

\* a keep-alive written although a fragment is waiting on the queue
KeepAliveUnguarded(v) ==
  /\ pcH[v] \in {"stream", "gone"}
  /\ pcH' = [pcH EXCEPT ![v] = IF @ = "gone" THEN "unsub" ELSE @]
  /\ UNCHANGED <<envVars, faultVars, mode, detailed, pc, readVars, conversation, tableVars,
                 ckptVars, initial_html, pollVars, _subscribers, queues, page, received,
                 joined_at>>

\* the get timed out on an empty queue: the keep-alive comment is written,
\* which raises when the tab is closed
KeepAlive(v) ==
  /\ pcH[v] \in {"stream", "gone"}
  /\ queues[v] = <<>>
  /\ pcH' = [pcH EXCEPT ![v] = IF @ = "gone" THEN "unsub" ELSE @]
  /\ UNCHANGED <<envVars, faultVars, mode, detailed, pc, readVars, conversation, tableVars, ckptVars,
                 initial_html, pollVars, _subscribers, queues, page, received, joined_at>>

\* the viewer closes the tab
CloseTab(v) ==
  /\ pcH[v] = "stream"
  /\ pcH' = [pcH EXCEPT ![v] = "gone"]
  /\ UNCHANGED <<envVars, faultVars, mode, detailed, pc, readVars, conversation, tableVars, ckptVars,
                 initial_html, pollVars, _subscribers, queues, page, received, joined_at>>

\* an unsubscribe that does not take the registry lock
UnsubscribeUnlocked(v) ==
  /\ pcH[v] = "unsub"
  /\ _subscribers' = Remove(_subscribers, v)
  /\ queues' = [queues EXCEPT ![v] = <<>>]
  /\ pcH' = [pcH EXCEPT ![v] = "idle"]
  /\ page' = [page EXCEPT ![v] = <<>>]
  /\ received' = [received EXCEPT ![v] = <<>>]
  /\ joined_at' = [joined_at EXCEPT ![v] = 0]
  /\ UNCHANGED <<envVars, faultVars, mode, detailed, pc, readVars, conversation, tableVars, ckptVars,
                 initial_html, pollVars>>

\* a handler that returns without removing its queue from the registry
UnsubscribeForgets(v) ==
  /\ pcH[v] = "unsub"
  /\ ~LockHeld
  /\ pcH' = [pcH EXCEPT ![v] = "idle"]
  /\ page' = [page EXCEPT ![v] = <<>>]
  /\ received' = [received EXCEPT ![v] = <<>>]
  /\ joined_at' = [joined_at EXCEPT ![v] = 0]
  /\ UNCHANGED <<envVars, faultVars, mode, detailed, pc, readVars, conversation, tableVars,
                 ckptVars, initial_html, pollVars, _subscribers, queues>>

\* finally: _unsubscribe removes the queue from the registry under the lock;
\* do_GET returns, the queue is garbage and the closed tab's view is gone
Unsubscribe(v) ==
  /\ pcH[v] = "unsub"
  /\ ~LockHeld
  /\ _subscribers' = Remove(_subscribers, v)
  /\ queues' = [queues EXCEPT ![v] = <<>>]
  /\ pcH' = [pcH EXCEPT ![v] = "idle"]
  /\ page' = [page EXCEPT ![v] = <<>>]
  /\ received' = [received EXCEPT ![v] = <<>>]
  /\ joined_at' = [joined_at EXCEPT ![v] = 0]
  /\ UNCHANGED <<envVars, faultVars, mode, detailed, pc, readVars, conversation, tableVars, ckptVars,
                 initial_html, pollVars>>

WatchFiles == {FileOf(ls) : ls \in SeqsOf(WatchLines, 1, MaxWatchLines)}

Init ==
  /\ file = <<>>
  /\ readable = TRUE
  /\ pending \in WatchFiles
  /\ mode = "watch"
  /\ detailed = TRUE
  /\ pc = "load_open"
  /\ InitCommon

\* the server as it is built: HTTPServer, one request at a time
Next ==
  \/ WriterAppend
  \/ LoadOpen
  \/ LoadLine
  \/ LoadTell
  \/ LoadStat
  \/ Start
  \/ PollStat
  \/ PollRead
  \/ PollSize
  \/ PollLine
  \/ BroadcastPut
  \/ BroadcastDone
  \/ PollEnd
  \/ \E v \in Viewers : OpenPage(v)
  \/ \E v \in Viewers : Subscribe(v)
  \/ \E v \in Viewers : Deliver(v)
  \/ \E v \in Viewers : KeepAlive(v)
  \/ \E v \in Viewers : CloseTab(v)
  \/ \E v \in Viewers : Unsubscribe(v)
  \/ \E v \in Viewers : ServeRoot(v)
  \/ \E v \in Viewers : ServeEvents(v)

Spec == Init /\ [][Next]_vars

(***************************************************************************)
(* Properties of a watch session.                                          *)
(***************************************************************************)
\* C1: after a poll has read (_process_new_content), the checkpoint is at the
\* start of the file or just behind a newline: it never stands past a tail
\* the writer has not terminated yet.
C1_CheckpointBehindWholeLines ==
  pcP \in {"stat", "lines", "bcast"} => (_last_offset = 0 \/ file[_last_offset] = NL)

\* the writer is done, the bootstrap and every poll have run to their end
Quiescent ==
  /\ pc = "serve"
  /\ pending = <<>>
  /\ pcP = "sleep"
  /\ _last_size = Len(file)

\* the fragments the bootstrap and the polls produced, in order, each with
\* the offset of its record
Produced ==
  [k \in DOMAIN conversation |->
     [html |-> RenderMessageHtml(conversation[k].msg), at |-> conversation[k].at]]
  \o [k \in DOMAIN published |-> [html |-> published[k].data.json, at |-> published[k].at]]

\* the same for one parse of the complete file from byte 0
OneShot ==
  LET all == ValidMessages(ReadLines(file), 1, EmptyTable, EmptyTable, <<>>)
  IN  [k \in DOMAIN all |-> [html |-> RenderMessageHtml(all[k].msg), at |-> all[k].at]]

\* C2: whatever the chunks the writer appended and the polls observed, once
\* everything is read the messages of the bootstrap followed by the polls are
\* the messages of one parse of the final file.
C2_IncrementalEqualsOneShot == Quiescent => Produced = OneShot

\* the fragments viewer v's handler got on its queue, dequeued or not
Stream(v) == received[v] \o queues[v]

\* how many fragments _broadcast has finished passing through the registry
Completed == IF pcP = "bcast" THEN Len(published) - 1 ELSE Len(published)

\* the record at this offset is in v's document or on its event stream
Covered(v, at) ==
  \/ \E i \in DOMAIN page[v] : page[v][i].at = at
  \/ \E i \in DOMAIN Stream(v) : Stream(v)[i].at = at

\* C3: a viewer that loaded the document and subscribed to the stream misses
\* no message parsed from the file so far: each is in its document or on its
\* stream.
C3_DocumentAndStreamCoverFile ==
  \A v \in Viewers :
    pcH[v] = "stream" =>
      /\ \A k \in DOMAIN conversation : Covered(v, conversation[k].at)
      /\ \A n \in 1..Completed : Covered(v, published[n].at)

Registered(v) == \E i \in DOMAIN _subscribers : _subscribers[i] = v
Position(v) == CHOOSE i \in DOMAIN _subscribers : _subscribers[i] = v
Copies(v, n) == Cardinality({i \in DOMAIN Stream(v) : Stream(v)[i].seq = n})

\* the running pass of _broadcast has not reached v's queue yet
PassPending(v, n) == pcP = "bcast" /\ n = Len(published) /\ Position(v) >= bcast_i

\* C4: a subscriber registered when a fragment is published gets exactly one
\* copy of it on its queue, none while the pass has not reached it, and the
\* queue holds it until the handler takes it.
C4_ExactlyOncePerRegisteredSubscriber ==
  \A v \in Viewers :
    Registered(v) =>
      \A n \in (joined_at[v] + 1)..Len(published) :
        Copies(v, n) = IF PassPending(v, n) THEN 0 ELSE 1

\* a subscriber that was registered before two fragments were published and
\* holds one copy of each
C4_Witness ==
  \E v \in Viewers :
    /\ Registered(v)
    /\ joined_at[v] = 0
    /\ Len(published) = 2
    /\ pcP = "sleep"
    /\ Copies(v, 1) = 1 /\ Copies(v, 2) = 1

\* C5: every subscriber's stream is in the order of the records in the file,
\* and two fragments that two subscribers both get are in the same relative
\* order at both.
C5_FileOrderAtEverySubscriber ==
  /\ \A v \in Viewers :
       \A i, j \in DOMAIN Stream(v) : i < j => Stream(v)[i].at < Stream(v)[j].at
  /\ \A v, w \in Viewers :
       \A i, j \in DOMAIN Stream(v) :
         \A k, l \in DOMAIN Stream(w) :
           (i < j /\ Stream(v)[i] = Stream(w)[k] /\ Stream(v)[j] = Stream(w)[l]) => k < l

\* a subscriber that dequeued two fragments
C5_Witness ==
  \E v \in Viewers :
    /\ pcH[v] = "stream"
    /\ Len(received[v]) = 2
    /\ received[v][1].at < received[v][2].at

\* C6: a queue created after a fragment was published never holds that
\* fragment: it starts empty and only gets what is published later.
C6_LateSubscriberGetsNoPast ==
  \A v \in Viewers :
    \A i \in DOMAIN Stream(v) : Stream(v)[i].seq > joined_at[v]

\* a subscriber that registered after the first fragment was published and
\* dequeued the second
C6_Witness ==
  \E v \in Viewers :
    /\ Registered(v)
    /\ joined_at[v] = 1
    /\ Len(published) = 2
    /\ Len(received[v]) = 1
    /\ received[v][1].seq = 2

\* C7: a viewer whose request is waiting is served whatever the other
\* viewers' handlers are doing.
C7_EveryRequestIsServed ==
  \A v \in Viewers :
    (pc = "serve" /\ pcH[v] \in {"want_root", "want_events"})
      => ENABLED (ServeRoot(v) \/ ServeEvents(v))

\* C8: a pass of _broadcast can always take its next step, however many
\* fragments a subscriber has left on its queue, and a fragment stays on the
\* queue until the subscriber's handler takes it.
C8_PublishNeverWaits ==
  /\ (pcP = "bcast" /\ bcast_i <= Len(_subscribers)) => ENABLED BroadcastPut
  /\ \A v \in Viewers :
       Registered(v) =>
         \A n \in (joined_at[v] + 1)..Completed :
           \E i \in DOMAIN Stream(v) : Stream(v)[i] = published[n]

\* a subscriber that took nothing from its queue while two fragments were
\* published
C8_Witness ==
  \E v \in Viewers :
    /\ pcH[v] = "stream"
    /\ received[v] = <<>>
    /\ Len(queues[v]) = 2
    /\ pcP = "sleep"

\* C13: a failed write to one viewer's stream leaves everything else as it
\* was, and the finally clause that follows removes that viewer's queue from
\* the registry and nothing else: the other viewers' registrations, queues
\* and handlers, the checkpoint, the tables and the poll thread are unchanged.
C13_DeliveryErrorIsolated ==
  [][\A v \in Viewers :
       /\ (pcH[v] = "gone" /\ pcH'[v] = "unsub") =>
            /\ _subscribers' = _subscribers
            /\ \A w \in Viewers \ {v} :
                 queues'[w] = queues[w] /\ received'[w] = received[w] /\ pcH'[w] = pcH[w]
            /\ UNCHANGED <<envVars, readVars, conversation, tableVars, ckptVars, pollVars>>
       /\ (pcH[v] = "unsub" /\ pcH'[v] = "idle") =>
            /\ \A i \in DOMAIN _subscribers' : _subscribers'[i] # v
            /\ \A w \in Viewers \ {v} :
                 /\ Registered(w) <=> \E i \in DOMAIN _subscribers' : _subscribers'[i] = w
                 /\ queues'[w] = queues[w] /\ received'[w] = received[w] /\ pcH'[w] = pcH[w]
            /\ UNCHANGED <<envVars, readVars, conversation, tableVars, ckptVars, pollVars>>
  ]_vars

\* a registered viewer whose stream failed on a write with a fragment still
\* queued, about to be unregistered, while another viewer waits for its page
\* and the poll thread is between two polls
C13_Witness ==
  \E v, w \in Viewers :
    /\ v # w
    /\ pcH[v] = "unsub"
    /\ Registered(v)
    /\ queues[v] # <<>>
    /\ pcH[w] = "want_root"
    /\ pcP = "sleep"
    /\ ENABLED Unsubscribe(v)

\* C15: the keep-alive is written only when the viewer's queue is empty, the
\* step puts nothing on a queue and takes nothing off one, leaves what the
\* handlers have written as it is, and everything on a queue or a stream is
\* a fragment that was published.
C15_KeepAliveOnlyWhenIdle ==
  /\ [](\A v \in Viewers :
         \A i \in DOMAIN Stream(v) : \E n \in DOMAIN published : Stream(v)[i] = published[n])
  /\ [][\A v \in Viewers :
         KeepAlive(v) => (queues[v] = <<>> /\ UNCHANGED <<queues, received, published>>)]_vars

\* a viewer whose handler has written a fragment, has an empty queue and
\* times out on it
C15_Witness ==
  \E v \in Viewers :
    /\ pcH[v] = "stream"
    /\ Len(received[v]) = 1
    /\ queues[v] = <<>>
    /\ pcP = "sleep"
    /\ pending # <<>>
    /\ ENABLED KeepAlive(v)

\* the main thread is in _load_initial or _build_initial_html: the poll
\* thread does not exist yet
Bootstrapping == pc \in {"load_open", "load_lines", "load_stat", "build"} /\ pcP = "off"

\* the step is one of the poll thread's
PollThreadStep == pc = "serve" /\ pcP # "off" /\ pcH' = pcH

\* C23: while a publish pass holds the registry lock the registry does not
\* change, and a step that changes the registry is a subscribe or an
\* unsubscribe of one handler taken while no pass is under way; the
\* checkpoint and the resolution tables are written by the bootstrap before
\* the poll thread exists and by the poll thread's steps afterwards.
C23_RegistryUnderLockSingleWriter ==
  [][/\ LockHeld => _subscribers' = _subscribers
     /\ (_subscribers' # _subscribers) =>
          \E v \in Viewers :
            /\ pcH[v] \in {"subscribing", "unsub"}
            /\ pcH'[v] # pcH[v]
            /\ \A w \in Viewers \ {v} : pcH'[w] = pcH[w]
            /\ UNCHANGED pollVars
     /\ (<<ckptVars, tableVars>>' # <<ckptVars, tableVars>>) =>
          (Bootstrapping \/ PollThreadStep)]_vars

\* a handler waits to unsubscribe while a publish pass iterates over the
\* registry that holds its queue
C23_Witness ==
  \E v \in Viewers :
    /\ pcH[v] = "unsub"
    /\ LockHeld
    /\ bcast_i = 1
    /\ _subscribers = <<v>>
    /\ ~ENABLED Unsubscribe(v)

\* a is an initial segment of b
IsPrefix(a, b) == Len(a) <= Len(b) /\ SubSeq(b, 1, Len(a)) = a

\* the message carries a tool_result part whose tool name was not resolved
Unresolved(m) ==
  \E n \in DOMAIN ToolResultParts(m) : ToolResultParts(m)[n].tool_name = Null

\* C18: what has been emitted is never touched again: every step leaves the
\* messages already in the conversation, the served document, the fragments
\* already published and the fragments already on a viewer's stream as they
\* are (a stream only grows, until its handler drops it), whatever the step
\* registers.
C18_NoBackfill ==
  [][/\ IsPrefix(conversation, conversation')
     /\ IsPrefix(published, published')
     /\ pc = "serve" => initial_html' = initial_html
     /\ \A v \in Viewers :
          \/ IsPrefix(Stream(v), Stream(v)')
          \/ pcH[v] = "unsub" /\ Stream(v)' = <<>>]_vars

\* a polled record registered t1 after the bootstrap had emitted, and the
\* document had been built with, a tool_result of t1 that is still unresolved
C18_Witness ==
  /\ pc = "serve"
  /\ pcP = "sleep"
  /\ Len(conversation) = 1
  /\ Unresolved(conversation[1].msg)
  /\ ToolResultParts(conversation[1].msg)[1].tool_use_id = Str("t1")
  /\ Len(initial_html) = 1
  /\ Len(published) = 1
  /\ _tool_use_to_name = [k \in {Str("t1")} |-> Str("Read")]

\* the handlers that have subscribed and not yet returned
Subscribed == {v \in Viewers : pcH[v] \in {"stream", "gone", "unsub"}}

\* C30: the registry holds no stale channel: it lists, once each, exactly
\* the channels of the handlers that have subscribed and not yet returned;
\* a handler that returns, on any path, has removed its own channel; and
\* removing a channel that is not registered leaves the registry as it is.
C30_NoStaleChannel ==
  /\ [](/\ \A v \in Viewers : Registered(v) <=> v \in Subscribed
        /\ \A i, j \in DOMAIN _subscribers : i # j => _subscribers[i] # _subscribers[j]
        /\ \A v \in Viewers \ Subscribed : Remove(_subscribers, v) = _subscribers)
  /\ [][\A v \in Viewers :
          (pcH[v] \in HandlerStates /\ pcH'[v] \notin HandlerStates) =>
            /\ pcH[v] = "unsub"
            /\ \A i \in DOMAIN _subscribers' : _subscribers'[i] # v]_vars

\* a handler whose write failed is in its finally clause with its channel
\* the only one registered, while another viewer's request waits for the
\* server
C30_Witness ==
  \E v, w \in Viewers :
    /\ pcH[v] = "unsub"
    /\ _subscribers = <<v>>
    /\ received[v] # <<>>
    /\ pcH[w] = "want_events"
    /\ Remove(_subscribers, w) = <<v>>
    /\ ENABLED Unsubscribe(v)

(***************************************************************************)
(* The watch session when the source file is not only appended to: it may  *)
(* be truncated (a rotated or rewritten log) or removed.                   *)
(***************************************************************************)
\* the file is truncated to nothing; the writer goes on appending to it
Truncate ==
  /\ readable
  /\ file # <<>>
  /\ file' = <<>>
  /\ UNCHANGED <<pending, faultVars, mode, detailed, pc, readVars, conversation, tableVars,
                 ckptVars, initial_html, pollVars, serverVars>>

\* the file is removed (or its permissions are): open() and stat() raise from now on
FileRemoved ==
  /\ readable
  /\ readable' = FALSE
  /\ UNCHANGED <<envVars, io_failed, diagnostics, mode, detailed, pc, readVars, conversation,
                 tableVars, ckptVars, initial_html, pollVars, serverVars>>

\* the lines the writer appends: the records of a watch session, a record
\* whose rendering raises, and a line with an undecodable byte
FaultLines == WatchLines \cup {RecordLine("a_think5"), <<BadByte>>}
\* a line of text with a two-byte character (not a JSON record)
AccentLine == <<Lead, Cont>>
FaultFiles ==
  {FileOf(<<l>>) : l \in FaultLines} \cup {FileOf(<<RecordLine("u_hello"), AccentLine>>)}

InitFaults ==
  /\ file = <<>>
  /\ readable = TRUE
  /\ pending \in FaultFiles
  /\ mode = "watch"
  /\ detailed = TRUE
  /\ pc = "load_open"
  /\ InitCommon

NextFaults ==
  \/ Next
  \/ PollStatFails
  \/ Truncate
  \/ FileRemoved

SpecFaults == InitFaults /\ [][NextFaults]_vars

\* C12: once the bootstrap is over, no step of the watch session lowers
\* _last_offset or _last_size, whatever happens to the source file.
C12_CheckpointNeverDecreases ==
  [][pc = "serve" => (_last_offset' >= _last_offset /\ _last_size' >= _last_size)]_vars

\* no read, poll or parse is under way
Settled == pc \in {"ex_done", "serve"} /\ pcP \in {"off", "sleep"}

\* C14: when an open() or a stat() of the source file has failed, the error
\* has been printed exactly once and the session is over: the watcher does
\* not go on serving and polling.
C14_SourceErrorReportedOnceEndsSession ==
  (io_failed /\ Settled) => (diagnostics = 1 /\ pc # "serve")

(***************************************************************************)
(* The watch session with a writer that appends complete lines only, and   *)
(* threads that are scheduled: the main thread runs the bootstrap to its   *)
(* end and the poll thread keeps taking its next step.                     *)
(***************************************************************************)
\* the writer appends its next lines, each with its newline, in one write
WriterAppendLine ==
  /\ readable
  /\ pending # <<>>
  /\ \E n \in 1..Len(pending) :
       /\ pending[n] = NL
       /\ file' = file \o SubSeq(pending, 1, n)
       /\ pending' = SubSeq(pending, n + 1, Len(pending))
  /\ UNCHANGED <<faultVars, mode, detailed, pc, readVars, conversation, tableVars, ckptVars,
                 initial_html, pollVars, serverVars>>

\* the steps of start() up to serve_forever
MainThread == LoadOpen \/ LoadLine \/ LoadTell \/ LoadStat \/ Start

\* the steps of _poll_loop
PollThread ==
  PollStat \/ PollRead \/ PollSize \/ PollLine \/ BroadcastPut \/ BroadcastDone \/ PollEnd

NextLive ==
  \/ WriterAppendLine
  \/ MainThread
  \/ PollThread
  \/ \E v \in Viewers : OpenPage(v)
  \/ \E v \in Viewers : Subscribe(v)
  \/ \E v \in Viewers : Deliver(v)
  \/ \E v \in Viewers : KeepAlive(v)
  \/ \E v \in Viewers : CloseTab(v)
  \/ \E v \in Viewers : Unsubscribe(v)
  \/ \E v \in Viewers : ServeRoot(v)
  \/ \E v \in Viewers : ServeEvents(v)

SpecLive == Init /\ [][NextLive]_vars /\ WF_vars(MainThread) /\ WF_vars(PollThread)

\* the checkpoint is at the end of the file and every record of the file has
\* been emitted, by the bootstrap or by a poll
CaughtUp == pc = "serve" /\ _last_offset = Len(file) /\ Produced = OneShot

\* C27: once the writer has appended its last complete line, the watcher
\* eventually has the checkpoint at the end of the file and every record
\* emitted.
C27_TailingCatchesUp == (pending = <<>>) ~> CaughtUp

\* where the poll thread can be: asleep, or in a step of _process_new_content
PollStates == {"sleep", "read", "stat", "lines", "bcast"}

\* the poll iteration under way ends on an exception
PollFailure ==
  \/ pcP \in {"read", "stat"} /\ ~readable
  \/ pcP = "read" /\ readable /\ Undecodable(SubSeq(file, _last_offset + 1, Len(file)))

\* C26: once started the poll thread never leaves its loop: an iteration
\* that raises (stat or open failure, undecodable bytes) puts it back to
\* sleep, a line whose parsing or rendering raises is skipped and the
\* iteration goes on, and asleep it can always poll again.
C26_PollLoopNeverTerminates ==
  /\ [](pc = "serve" => pcP \in PollStates)
  /\ [][/\ pcP \in PollStates => pcP' \in PollStates
        /\ (PollFailure /\ pcP' # pcP) => pcP' = "sleep"
        /\ (pcP = "lines" /\ pcP' # pcP) => pcP' \in {"bcast", "sleep"}]_vars
  /\ [](pcP = "sleep" =>
          \/ readable /\ Len(file) = _last_size
          \/ ENABLED PollStat
          \/ ENABLED PollStatFails)

\* the poll thread is asleep again after polls that failed on a removed file
\* and on a record whose rendering raised
C26_Witness ==
  /\ pc = "serve"
  /\ pcP = "sleep"
  /\ io_failed
  /\ ~readable
  /\ file = FileOf(<<RecordLine("a_think5")>>)
  /\ _last_offset = Len(file)
  /\ published = <<>>
  /\ ENABLED PollStatFails

\* the source file has only been appended to: what is written and what is
\* still to be written make up one of the transcripts
AppendOnly == file \o pending \in FaultFiles

\* C28: as long as the file is only appended to, every line is handed to the
\* record parser at most once over the whole watch session, failed reads
\* included: no two messages of the bootstrap document and the broadcasts
\* come from the line at the same offset.
C28_EachLineParsedOnce ==
  AppendOnly =>
    \A i, j \in DOMAIN Produced : i # j => Produced[i].at # Produced[j].at

====
